---------------------------- MODULE Spec2Model ----------------------------
(* Rule-card store of sajuos: tag canonicalization, tag tokenization,      *)
(* priority normalization and RuleCardStore.load with its two indexes.     *)
(*                                                                         *)
(* Strings whose characters matter (tags) are sequences of characters; a   *)
(* character is a one-element name: " " is the space, "TAB" the tab, and   *)
(* each Hangul syllable of TAG_NORMALIZE is written by its romanisation    *)
(* ("jeong" is one character).  Floats are fixed-point integers counting   *)
(* hundredths: Fixed(10) is 10.0.                                          *)
EXTENDS Integers, Sequences, FiniteSets, TLC

VARIABLES
    path,         \* RuleCardStore.path
    cards,        \* RuleCardStore.cards
    by_topic,     \* RuleCardStore.by_topic
    idf,          \* RuleCardStore.idf
    file_exists,  \* os.path.exists(path)
    file_lines,   \* the lines of the file at path
    load_result,  \* how the last load() call ended (LoadNotCalled before)
    cards_before, \* history: <<cards held when the last load() that returned
                  \* was called>>, <<>> while no load() has returned
    tag_in,       \* argument of canon_tag / explode_tag_tokens
    tag_canon,    \* <<canon_tag(tag_in)>> once called, <<>> before
    tag_tokens,   \* <<explode_tag_tokens(tag_in)>> once called, <<>> before
    prio_in,      \* argument of safe_priority
    prio_out,     \* <<safe_priority(prio_in)>> once called, <<>> before
    rulestore,    \* app.state.rulestore: "unset" before lifespan runs, then
                  \* "None" or "store" (the RuleCardStore of the variables above)
    openai_ready,         \* app.state.openai_ready
    supabase_configured,  \* app.state.supabase_configured
    candidate_exists,     \* os.path.exists(p) for each p of possible_paths
    startup_loads,  \* history: the paths load() was invoked on by lifespan
    ready_out,    \* <<response of the last GET /ready>>, <<>> before
    select_out,   \* <<result of the last _select_rulecards call>>, <<>> before
    status_out,   \* <<response of the last GET /interpret/rulecards-status>>
    load_pc,      \* where a load() call taken statement by statement is:
                  \* the line it runs next (0 when no such call is under
                  \* way) and the cards the store held when it was called
    db_job,       \* the report_jobs row of the job the requests are about
    db_sections,  \* its report_sections rows, as get_sections returns them
    view_out,     \* <<response of the last GET /view/{job_id}>>, <<>> before
    result_out,   \* <<response of the last GET /{job_id}/result>>
    job_status_out, \* <<response of the last GET /{job_id}/status>>
    max_retries,  \* _call_openai_with_retry: its parameter (0: not called)
    attempt,      \* its loop variable
    last_error,   \* its local last_error: <<>> for None, else <<error>>
    api_log,      \* history: the create calls and the sleeps of the call
    call_result,  \* <<>> while it runs, then <<what it returned or raised>>
    retry_pc,     \* "idle", "create", "sleep" or "done"
    running_jobs, \* ReportWorker._running_jobs
    task,         \* the run_job calls: where each is (pc), its locals idx and
                  \* failed_sections, the ok of the section result it holds,
                  \* and how its last call ended (error)
    job_log,      \* history: the calls of the latest execution of the job
    invocations,  \* history: the number of run_job calls made
    raises        \* history: the number of persistence calls that raised

vars == <<path, cards, by_topic, idf, file_exists, file_lines, load_result,
          cards_before, tag_in, tag_canon, tag_tokens, prio_in, prio_out,
          rulestore, openai_ready, supabase_configured, candidate_exists,
          startup_loads, ready_out, select_out, status_out, load_pc,
          db_job, db_sections, view_out, result_out, job_status_out,
          max_retries, attempt, last_error, api_log, call_result, retry_pc,
          running_jobs, task, job_log, invocations, raises>>

storeVars == <<path, cards, by_topic, idf>>
fileVars  == <<file_exists, file_lines>>
tagVars   == <<tag_in, tag_canon, tag_tokens>>
prioVars  == <<prio_in, prio_out>>
appVars   == <<rulestore, openai_ready, supabase_configured, candidate_exists,
               startup_loads>>
outVars   == <<ready_out, select_out, status_out>>
dbVars    == <<db_job, db_sections>>
viewVars  == <<view_out, result_out, job_status_out>>
retryVars == <<max_retries, attempt, last_error, api_log, call_result, retry_pc>>
workerVars == <<running_jobs, task, job_log, invocations, raises>>
reportVars == <<dbVars, viewVars, retryVars, workerVars>>
ruleVars  == <<storeVars, fileVars, load_result, cards_before, tagVars,
               prioVars, appVars, outVars, load_pc>>

-----------------------------------------------------------------------------
(* Bounds *)

MaxTagLen == 4          \* longest generated tag, in characters
MaxLines == 3           \* longest file, in lines
MaxAppLines == 2        \* longest file the application starts on, in lines
MaxSelectLines == 3     \* longest file a selection's store is loaded from, in lines
BelowZeroTenths == 20      \* numeric priority inputs go down to minus this, in tenths
MaxPriorityTenths == 1050   \* largest numeric priority input, in tenths

-----------------------------------------------------------------------------
(* Python string primitives used by the store *)

Fixed(n) == n * 100

Min(a, b) == IF a <= b THEN a ELSE b

\* float("nan"), kept as an integer no priority computation reaches
NaN == 0 - Fixed(1000000)

\* a < b and a <= b on floats: every comparison with NaN is false
float_lt(a, b) == a # NaN /\ b # NaN /\ a < b
float_le(a, b) == a # NaN /\ b # NaN /\ a <= b

\* min(a, b): b only when b < a
float_min(a, b) == IF float_lt(b, a) THEN b ELSE a

\* a / 10.0
float_div10(a) == IF a = NaN THEN NaN ELSE a \div 10

Whitespace == {" ", "TAB"}

RECURSIVE str_lstrip(_)
str_lstrip(s) ==
    IF s # <<>> /\ Head(s) \in Whitespace THEN str_lstrip(Tail(s)) ELSE s

RECURSIVE str_rstrip(_)
str_rstrip(s) ==
    IF s # <<>> /\ s[Len(s)] \in Whitespace
    THEN str_rstrip(SubSeq(s, 1, Len(s) - 1))
    ELSE s

str_strip(s) == str_rstrip(str_lstrip(s))

\* s.split(): the maximal whitespace-free runs of s, in order
RECURSIVE SplitWhitespaceFrom(_, _, _)
SplitWhitespaceFrom(s, cur, out) ==
    IF s = <<>>
    THEN IF cur = <<>> THEN out ELSE Append(out, cur)
    ELSE IF Head(s) \in Whitespace
         THEN SplitWhitespaceFrom(Tail(s), <<>>,
                                  IF cur = <<>> THEN out ELSE Append(out, cur))
         ELSE SplitWhitespaceFrom(Tail(s), Append(cur, Head(s)), out)

str_split(s) == SplitWhitespaceFrom(s, <<>>, <<>>)

\* s.split(sep): cut at every occurrence of the character sep, empties kept
RECURSIVE SplitSepFrom(_, _, _, _)
SplitSepFrom(s, sep, cur, out) ==
    IF s = <<>>
    THEN Append(out, cur)
    ELSE IF Head(s) = sep
         THEN SplitSepFrom(Tail(s), sep, <<>>, Append(out, cur))
         ELSE SplitSepFrom(Tail(s), sep, Append(cur, Head(s)), out)

str_split_sep(s, sep) == SplitSepFrom(s, sep, <<>>, <<>>)

\* sep.join(parts)
RECURSIVE str_join(_, _)
str_join(sep, parts) ==
    IF parts = <<>> THEN <<>>
    ELSE IF Len(parts) = 1 THEN parts[1]
    ELSE parts[1] \o sep \o str_join(sep, Tail(parts))

-----------------------------------------------------------------------------
(* Tag canonicalization and tokenization *)

\* variant: a value of the table ("in mok") is itself a key
TAG_NORMALIZE_chained ==
    (<<"jeong", "je">> :> <<"jeong", "jae">>) @@
    (<<"gan", "mok">> :> <<"in", "mok">>) @@
    (<<"in", "mok">> :> <<"sin", "geum">>)

TAG_NORMALIZE ==
    (<<"jeong", "je">> :> <<"jeong", "jae">>) @@
    (<<"pyeon", "je">> :> <<"pyeon", "jae">>) @@
    (<<"geop", "je">> :> <<"geop", "jae">>) @@
    (<<"sik", "sin", "saeng", "je">> :> <<"sik", "sin", "saeng", "jae">>) @@
    (<<"sang", "gwan", "saeng", "je">> :> <<"sang", "gwan", "saeng", "jae">>) @@
    (<<"sik", "sang", "saeng", "je">> :> <<"sik", "sang", "saeng", "jae">>) @@
    (<<"gan", "mok">> :> <<"in", "mok">>) @@
    (<<"sin", "ji", "geum">> :> <<"sin", "geum">>)

\* variant: the synonym table is consulted with the raw string
canon_tag_raw_lookup(t) ==
    LET s == str_join(<<" ">>, str_split(str_strip(t)))
    IN  IF t \in DOMAIN TAG_NORMALIZE THEN TAG_NORMALIZE[t] ELSE s

canon_tag(t) ==
    LET s == str_join(<<" ">>, str_split(str_strip(t)))
    IN  IF s \in DOMAIN TAG_NORMALIZE THEN TAG_NORMALIZE[s] ELSE s

\* variant: the length filter is missing
RECURSIVE CanonPartsUnfiltered(_)
CanonPartsUnfiltered(ps) ==
    IF ps = <<>> THEN <<>>
    ELSE <<canon_tag(Head(ps))>> \o CanonPartsUnfiltered(Tail(ps))

\* [canon_tag(p) for p in c.split(" ") if len(p) >= 2]
RECURSIVE CanonParts(_)
CanonParts(ps) ==
    IF ps = <<>> THEN <<>>
    ELSE IF Len(Head(ps)) >= 2
         THEN <<canon_tag(Head(ps))>> \o CanonParts(Tail(ps))
         ELSE CanonParts(Tail(ps))

\* variant: the "not in seen" test is missing
RECURSIVE FirstSeenNoDedup(_, _)
FirstSeenNoDedup(xs, out) ==
    IF xs = <<>> THEN out
    ELSE LET x == Head(xs)
         IN  IF x # <<>>
             THEN FirstSeenNoDedup(Tail(xs), Append(out, x))
             ELSE FirstSeenNoDedup(Tail(xs), out)

\* the loop "for x in xs: if x and x not in seen: ..." (seen = elements of out)
RECURSIVE FirstSeen(_, _)
FirstSeen(xs, out) ==
    IF xs = <<>> THEN out
    ELSE LET x == Head(xs)
         IN  IF x # <<>> /\ \A i \in 1..Len(out) : out[i] # x
             THEN FirstSeen(Tail(xs), Append(out, x))
             ELSE FirstSeen(Tail(xs), out)

explode_tag_tokens(t) ==
    LET c == canon_tag(t)
        parts == CanonParts(str_split_sep(c, " "))
    IN  FirstSeen(<<c>> \o parts, <<>>)

-----------------------------------------------------------------------------
(* JSON values, as json.loads returns them *)

JNull == [t |-> "null"]
JStr(s) == [t |-> "str", s |-> s]           \* a string that spells no number
JNumStr(n) == [t |-> "numstr", n |-> n]     \* a string that spells the number n
JNum(n) == [t |-> "num", n |-> n]
JNaN == [t |-> "nan"]                       \* the literal NaN or the string "nan"
JList(items) == [t |-> "list", items |-> items]
JObj(fields) == [t |-> "obj", fields |-> fields]

\* bool(v)
Truthy(v) ==
    CASE v.t = "null" -> FALSE
      [] v.t = "str" -> v.s # ""
      [] v.t = "numstr" -> TRUE
      [] v.t = "num" -> v.n # 0
      [] v.t = "nan" -> TRUE
      [] v.t = "list" -> v.items # <<>>
      [] v.t = "obj" -> DOMAIN v.fields # {}

\* hash(v) succeeds
Hashable(v) == v.t \notin {"list", "obj"}

\* obj.get(key, default)
dict_get(obj, key, default) ==
    IF key \in DOMAIN obj.fields THEN obj.fields[key] ELSE default

-----------------------------------------------------------------------------
(* Priority normalization *)

\* float(p): <<v>> when p converts to the number v, <<>> when float() raises
\* (ValueError for a non-numeric string, TypeError for None, a list, a dict)
to_float(p) ==
    IF p.t \in {"num", "numstr"} THEN <<p.n>>
    ELSE IF p.t = "nan" THEN <<NaN>>
    ELSE <<>>

\* variant: the clamp to 10 is applied before the division
safe_priority_clamp_first(p) ==
    LET f == to_float(p)
    IN  IF f = <<>> THEN 0
        ELSE LET v == f[1]
             IN  IF float_le(v, Fixed(10)) THEN float_min(v, Fixed(10))
                 ELSE float_div10(float_min(v, Fixed(10)))

\* variant: an unparseable priority falls back to the middle of the scale
safe_priority_neutral(p) ==
    LET f == to_float(p)
    IN  IF f = <<>> THEN Fixed(5)
        ELSE LET v == f[1]
             IN  IF float_le(v, Fixed(10)) THEN float_min(v, Fixed(10))
                 ELSE float_div10(float_min(v, Fixed(100)))

safe_priority(p) ==
    LET f == to_float(p)
    IN  IF f = <<>> THEN 0
        ELSE LET v == f[1]
             IN  IF float_le(v, Fixed(10)) THEN float_min(v, Fixed(10))
                 ELSE float_div10(float_min(v, Fixed(100)))

-----------------------------------------------------------------------------
(* RuleCardStore.load *)

\* variant: the tags test of the filter is missing
MissingRequiredNoTags(obj) ==
    \/ ~Truthy(dict_get(obj, "id", JNull))
    \/ ~Truthy(dict_get(obj, "topic", JNull))

\* not obj.get("id") or not obj.get("topic") or not obj.get("tags")
MissingRequired(obj) ==
    \/ ~Truthy(dict_get(obj, "id", JNull))
    \/ ~Truthy(dict_get(obj, "topic", JNull))
    \/ ~Truthy(dict_get(obj, "tags", JNull))

\* variant: repeated tags of a record are stored once
make_card_dedup_tags(obj) ==
    LET tags == dict_get(obj, "tags", JList(<<>>))
    IN  [id |-> obj.fields["id"],
         topic |-> obj.fields["topic"],
         tags |-> FirstSeen([i \in 1..Len(tags.items) |->
                                canon_tag(tags.items[i])], <<>>),
         priority |-> safe_priority(dict_get(obj, "priority", JNum(0)))]

\* RuleCard(...) of a record whose tags are a list; the optional text fields
\* (trigger, mechanism, interpretation, action, cautions) are carried through
\* untouched and are left out
make_card(obj) ==
    LET tags == dict_get(obj, "tags", JList(<<>>))
    IN  [id |-> obj.fields["id"],
         topic |-> obj.fields["topic"],
         tags |-> [i \in 1..Len(tags.items) |-> canon_tag(tags.items[i])],
         priority |-> safe_priority(dict_get(obj, "priority", JNum(0)))]

\* variant: a record whose id is already loaded is skipped
RECURSIVE ReadLinesUniqueIds(_, _)
ReadLinesUniqueIds(lines, acc) ==
    IF lines = <<>> THEN [raised |-> "", cards |-> acc]
    ELSE LET line == Head(lines)
             rest == Tail(lines)
         IN  IF line.text = "blank" THEN ReadLinesUniqueIds(rest, acc)
             ELSE IF line.text = "invalid" THEN ReadLinesUniqueIds(rest, acc)
             ELSE LET obj == line.json
                  IN  IF obj.t # "obj"
                      THEN [raised |-> "AttributeError", cards |-> acc]
                      ELSE IF MissingRequired(obj)
                      THEN ReadLinesUniqueIds(rest, acc)
                      ELSE IF dict_get(obj, "tags", JList(<<>>)).t # "list"
                      THEN [raised |-> "TypeError", cards |-> acc]
                      ELSE IF \E i \in 1..Len(acc) : acc[i].id = obj.fields["id"]
                      THEN ReadLinesUniqueIds(rest, acc)
                      ELSE ReadLinesUniqueIds(rest, Append(acc, make_card(obj)))

\* the loop body's result for the lines read so far: the exception that left
\* the loop ("" when none did) and the local list cards
RECURSIVE ReadLines(_, _)
ReadLines(lines, acc) ==
    IF lines = <<>> THEN [raised |-> "", cards |-> acc]
    ELSE LET line == Head(lines)
             rest == Tail(lines)
         IN  IF line.text = "blank" THEN ReadLines(rest, acc)
             ELSE IF line.text = "invalid" THEN ReadLines(rest, acc)
             ELSE LET obj == line.json
                  IN  IF obj.t # "obj"
                      THEN [raised |-> "AttributeError", cards |-> acc]
                      ELSE IF MissingRequired(obj)
                      THEN ReadLines(rest, acc)
                      ELSE IF dict_get(obj, "tags", JList(<<>>)).t # "list"
                      THEN [raised |-> "TypeError", cards |-> acc]
                      ELSE ReadLines(rest, Append(acc, make_card(obj)))

(* list.sort / sorted with key = priority, as CPython sorts a list of fewer *)
(* than 64 elements: the leading run is found (a strictly descending run   *)
(* is reversed), the rest is inserted by binary search; only "<" on the    *)
(* keys is used.  reverse=True reverses the list before and after.         *)

Reverse(q) == [i \in 1..Len(q) |-> q[Len(q) + 1 - i]]

key_lt(x, y) == float_lt(x.priority, y.priority)

RECURSIVE DescRunEnd(_, _)
DescRunEnd(a, i) ==
    IF i > Len(a) THEN Len(a)
    ELSE IF key_lt(a[i], a[i - 1]) THEN DescRunEnd(a, i + 1) ELSE i - 1

RECURSIVE AscRunEnd(_, _)
AscRunEnd(a, i) ==
    IF i > Len(a) THEN Len(a)
    ELSE IF key_lt(a[i], a[i - 1]) THEN i - 1 ELSE AscRunEnd(a, i + 1)

\* count_run: length of the leading run and whether it is descending
count_run(a) ==
    IF Len(a) <= 1 THEN [n |-> Len(a), desc |-> FALSE]
    ELSE IF key_lt(a[2], a[1])
         THEN [n |-> DescRunEnd(a, 3), desc |-> TRUE]
         ELSE [n |-> AscRunEnd(a, 3), desc |-> FALSE]

\* binarysort's search: where pivot goes among the first r elements
RECURSIVE BinaryPos(_, _, _, _)
BinaryPos(a, pivot, l, r) ==
    IF l >= r THEN l
    ELSE LET p == l + ((r - l) \div 2)
         IN  IF key_lt(pivot, a[p + 1])
             THEN BinaryPos(a, pivot, l, p)
             ELSE BinaryPos(a, pivot, p + 1, r)

\* binarysort: the first start elements are sorted, the others are inserted
RECURSIVE binarysort(_, _)
binarysort(a, start) ==
    IF start >= Len(a) THEN a
    ELSE LET pivot == a[start + 1]
             l == BinaryPos(a, pivot, 0, start)
         IN  binarysort(SubSeq(a, 1, l) \o <<pivot>> \o SubSeq(a, l + 1, start)
                            \o SubSeq(a, start + 2, Len(a)),
                        start + 1)

list_sort(a) ==
    LET run == count_run(a)
        a1 == IF run.desc
              THEN Reverse(SubSeq(a, 1, run.n)) \o SubSeq(a, run.n + 1, Len(a))
              ELSE a
    IN  binarysort(a1, run.n)

\* sort(key=lambda x: x.priority, reverse=True)
SortByPriorityDesc(cs) == Reverse(list_sort(Reverse(cs)))

\* the cards of cs whose topic is k, in the order of cs
RECURSIVE TopicGroup(_, _)
TopicGroup(cs, k) ==
    IF cs = <<>> THEN <<>>
    ELSE IF Head(cs).topic = k
         THEN <<Head(cs)>> \o TopicGroup(Tail(cs), k)
         ELSE TopicGroup(Tail(cs), k)

\* [raised, value]: setdefault raises TypeError on an unhashable topic
build_topic_index(cs) ==
    IF \E i \in 1..Len(cs) : ~Hashable(cs[i].topic)
    THEN [raised |-> "TypeError", value |-> <<>>]
    ELSE [raised |-> "",
          value |-> [k \in {cs[i].topic : i \in 1..Len(cs)} |->
                        SortByPriorityDesc(TopicGroup(cs, k))]]

SeqToSet(q) == {q[i] : i \in 1..Len(q)}

\* token_set of one card
TokenSet(c) == UNION {SeqToSet(explode_tag_tokens(c.tags[i])) : i \in 1..Len(c.tags)}

\* variant: the quotient is inverted, (d + 1) / (N + 1)
build_idf_inverted(cs) ==
    LET N == Len(cs)
        tokens == UNION {TokenSet(cs[i]) : i \in 1..N}
        df(t) == Cardinality({i \in 1..N : t \in TokenSet(cs[i])})
    IN  [t \in tokens |-> [num |-> df(t) + 1, den |-> N + 1]]

\* idf[t] = ln(num / den) + 1.0 is kept as the pair num, den
build_idf(cs) ==
    LET N == Len(cs)
        tokens == UNION {TokenSet(cs[i]) : i \in 1..N}
        df(t) == Cardinality({i \in 1..N : t \in TokenSet(cs[i])})
    IN  [t \in tokens |-> [num |-> N + 1, den |-> df(t) + 1]]

LoadNotCalled == [kind |-> "not called"]
LoadReturned == [kind |-> "returned"]
LoadRaised(e) == [kind |-> e]
FileNotFound(p) == [kind |-> "FileNotFoundError", path |-> p]

\* variant: a failed existence test resets the store
LoadMissingResets ==
    /\ load_result' = FileNotFound(path)
    /\ cards' = <<>>
    /\ by_topic' = <<>>
    /\ idf' = <<>>
    /\ UNCHANGED <<path, fileVars, cards_before, tagVars, prioVars>>

\* raise FileNotFoundError(f"Rulecards JSONL not found: {p}")
LoadMissing ==
    /\ load_result' = FileNotFound(path)
    /\ UNCHANGED <<storeVars, fileVars, cards_before, tagVars, prioVars>>

\* what a use of the store alone leaves as it is
NotTheStore == <<appVars, outVars, load_pc, reportVars>>

\* variant: the cards read are added to the ones the store holds
LocalCardsKeepOld(old) == old

\* cards: List[RuleCard] = []
LocalCards(old) == <<>>

Load ==
    /\ UNCHANGED NotTheStore
    /\ IF ~file_exists
       THEN LoadMissing
       ELSE LET r == ReadLines(file_lines, LocalCards(cards))
            IN  IF r.raised # ""
                THEN /\ load_result' = LoadRaised(r.raised)
                     /\ UNCHANGED <<storeVars, fileVars, cards_before, tagVars,
                                    prioVars>>
                ELSE LET m == build_topic_index(r.cards)
                     IN  /\ cards' = r.cards
                         /\ IF m.raised # ""
                            THEN /\ load_result' = LoadRaised(m.raised)
                                 /\ UNCHANGED <<by_topic, idf, cards_before>>
                            ELSE /\ by_topic' = m.value
                                 /\ idf' = build_idf(r.cards)
                                 /\ load_result' = LoadReturned
                                 /\ cards_before' = <<cards>>
                         /\ UNCHANGED <<path, fileVars, tagVars, prioVars>>

-----------------------------------------------------------------------------
(* The file at path: lines the store may meet *)

TagJeongJe == <<"jeong", "je">>
TagSpaced == <<" ", "x", "x", "TAB", " ", "jeong", "jae">>
TagXX == <<"x", "x">>
TagGanMok == <<"gan", "mok">>

LineBlank == [text |-> "blank"]
LineInvalid == [text |-> "invalid"]
LineJson(v) == [text |-> "json", json |-> v]

LineList == LineJson(JList(<<TagXX>>))
LineEmptyId ==
    LineJson(JObj([id |-> JStr(""), topic |-> JStr("t1"),
                   tags |-> JList(<<TagXX>>), priority |-> JNum(Fixed(7))]))
LineNoTopic ==
    LineJson(JObj([id |-> JStr("a"), tags |-> JList(<<TagXX>>)]))
LineEmptyTags ==
    LineJson(JObj([id |-> JStr("a"), topic |-> JStr("t1"), tags |-> JList(<<>>)]))
LineTagsNumber ==
    LineJson(JObj([id |-> JStr("a"), topic |-> JStr("t1"), tags |-> JNum(Fixed(5))]))
LineTopicList ==
    LineJson(JObj([id |-> JStr("d"), topic |-> JList(<<TagXX>>),
                   tags |-> JList(<<TagXX>>)]))
LineA ==
    LineJson(JObj([id |-> JStr("a"), topic |-> JStr("t1"),
                   tags |-> JList(<<TagJeongJe, TagSpaced>>),
                   priority |-> JNum(Fixed(85))]))
LineB ==
    LineJson(JObj([id |-> JStr("b"), topic |-> JStr("t1"),
                   tags |-> JList(<<TagXX>>), priority |-> JStr("high")]))
LineC ==
    LineJson(JObj([id |-> JStr("a"), topic |-> JStr("t2"),
                   tags |-> JList(<<TagGanMok, TagGanMok>>),
                   priority |-> JNum(0 - Fixed(5))]))
LineD ==
    LineJson(JObj([id |-> JStr("c"), topic |-> JStr("t1"),
                   tags |-> JList(<<TagSpaced>>)]))
LineE ==
    LineJson(JObj([id |-> JStr("b"), topic |-> JStr("t2"),
                   tags |-> JList(<<TagXX>>), priority |-> JNull]))
LineNaN ==
    LineJson(JObj([id |-> JStr("e"), topic |-> JStr("t1"),
                   tags |-> JList(<<TagGanMok>>), priority |-> JNaN]))

Lines == {LineBlank, LineInvalid, LineList, LineEmptyId, LineNoTopic,
          LineEmptyTags, LineTagsNumber, LineTopicList,
          LineA, LineB, LineC, LineD, LineE, LineNaN}

Files == UNION {[1..n -> Lines] : n \in 0..MaxLines}

\* contents a running deployment's file is replaced by
RewriteContents == {<<>>, <<LineC>>, <<LineInvalid, LineB>>}

Paths == {"data/sajuos_master_db.jsonl", "/app/data/sajuos_master_db.jsonl"}

RemoveFile ==
    /\ UNCHANGED NotTheStore
    /\ file_exists
    /\ file_exists' = FALSE
    /\ file_lines' = <<>>
    /\ UNCHANGED <<storeVars, load_result, cards_before, tagVars, prioVars>>

WriteFile ==
    \E f \in RewriteContents :
        /\ UNCHANGED NotTheStore
        /\ ~(file_exists /\ file_lines = f)
        /\ file_exists' = TRUE
        /\ file_lines' = f
        /\ UNCHANGED <<storeVars, load_result, cards_before, tagVars, prioVars>>

-----------------------------------------------------------------------------
(* Specification of the store: construction, then load() calls while the   *)
(* file changes                                                            *)

LoadIdle == [line |-> 0, was |-> <<>>]

\* the application has not run: no lifespan, no request, no load() under way
AppNotStarted ==
    /\ rulestore = "unset"
    /\ openai_ready = FALSE
    /\ supabase_configured = FALSE
    /\ candidate_exists = <<FALSE, FALSE, FALSE, FALSE>>
    /\ startup_loads = <<>>
    /\ ready_out = <<>> /\ select_out = <<>> /\ status_out = <<>>
    /\ load_pc = LoadIdle

\* no report job exists and no report endpoint has been requested
NoReportRequests ==
    /\ db_job = <<>>
    /\ db_sections = <<>>
    /\ view_out = <<>> /\ result_out = <<>> /\ job_status_out = <<>>

\* _call_openai_with_retry has not been called
RetryIdle ==
    /\ max_retries = 0
    /\ attempt = 0
    /\ last_error = <<>>
    /\ api_log = <<>>
    /\ call_result = <<>>
    /\ retry_pc = "idle"

\* no run_job call has been made
WorkerIdle ==
    /\ running_jobs = {}
    /\ task = <<>>
    /\ job_log = <<>>
    /\ invocations = 0
    /\ raises = 0

NoReports == NoReportRequests /\ RetryIdle /\ WorkerIdle

NoTag == <<>>
NoPriority == JNum(0)

Init ==
    /\ AppNotStarted
    /\ NoReports
    /\ path \in Paths
    /\ cards = <<>>
    /\ by_topic = <<>>
    /\ idf = <<>>
    /\ file_exists \in BOOLEAN
    /\ file_lines \in (IF file_exists THEN Files ELSE {<<>>})
    /\ load_result = LoadNotCalled
    /\ cards_before = <<>>
    /\ tag_in = NoTag /\ tag_canon = <<>> /\ tag_tokens = <<>>
    /\ prio_in = NoPriority /\ prio_out = <<>>

Next == Load \/ RemoveFile \/ WriteFile

Spec == Init /\ [][Next]_vars

-----------------------------------------------------------------------------
(* Specification of the tag functions: one tag, canonicalized and exploded *)

TagAlphabet == {" ", "TAB", "jeong", "je", "jae", "x"}

GeneratedTags == UNION {[1..n -> TagAlphabet] : n \in 0..MaxTagLen}

SampleTags ==
    (DOMAIN TAG_NORMALIZE) \cup
    {<<" ", " ">> \o k \o <<"TAB">> : k \in DOMAIN TAG_NORMALIZE} \cup
    {k \o <<" ", "TAB", " ">> \o k : k \in DOMAIN TAG_NORMALIZE} \cup
    {<<"x", "x", " ">> \o k \o <<" ", "y", " ", "x", "x">> : k \in DOMAIN TAG_NORMALIZE}

TagInputs == GeneratedTags \cup SampleTags

InitTag ==
    /\ AppNotStarted
    /\ NoReports
    /\ path = "data/sajuos_master_db.jsonl"
    /\ cards = <<>>
    /\ by_topic = <<>>
    /\ idf = <<>>
    /\ file_exists = FALSE
    /\ file_lines = <<>>
    /\ load_result = LoadNotCalled
    /\ cards_before = <<>>
    /\ tag_in \in TagInputs /\ tag_canon = <<>> /\ tag_tokens = <<>>
    /\ prio_in = NoPriority /\ prio_out = <<>>

CallCanonTag ==
    /\ UNCHANGED NotTheStore
    /\ tag_canon = <<>>
    /\ tag_canon' = <<canon_tag(tag_in)>>
    /\ UNCHANGED <<storeVars, fileVars, load_result, cards_before, tag_in,
                   tag_tokens, prioVars>>

CallExplodeTagTokens ==
    /\ UNCHANGED NotTheStore
    /\ tag_tokens = <<>>
    /\ tag_tokens' = <<explode_tag_tokens(tag_in)>>
    /\ UNCHANGED <<storeVars, fileVars, load_result, cards_before, tag_in,
                   tag_canon, prioVars>>

NextTag == CallCanonTag \/ CallExplodeTagTokens

SpecTag == InitTag /\ [][NextTag]_vars

-----------------------------------------------------------------------------
(* Specification of safe_priority: one raw value, normalized *)

NumericPriorities == {10 * k : k \in (0 - BelowZeroTenths)..MaxPriorityTenths}

PriorityInputs ==
    {JNum(v) : v \in NumericPriorities} \cup
    {JNumStr(v) : v \in NumericPriorities} \cup
    {JStr("not-a-number"), JStr(""), JNull, JList(<<>>), JObj(<<>>), JNaN}

InitPriority ==
    /\ AppNotStarted
    /\ NoReports
    /\ path = "data/sajuos_master_db.jsonl"
    /\ cards = <<>>
    /\ by_topic = <<>>
    /\ idf = <<>>
    /\ file_exists = FALSE
    /\ file_lines = <<>>
    /\ load_result = LoadNotCalled
    /\ cards_before = <<>>
    /\ tag_in = NoTag /\ tag_canon = <<>> /\ tag_tokens = <<>>
    /\ prio_in \in PriorityInputs /\ prio_out = <<>>

CallSafePriority ==
    /\ UNCHANGED NotTheStore
    /\ prio_out = <<>>
    /\ prio_out' = <<safe_priority(prio_in)>>
    /\ UNCHANGED <<storeVars, fileVars, load_result, cards_before, tagVars,
                   prio_in>>

NextPriority == CallSafePriority

SpecPriority == InitPriority /\ [][NextPriority]_vars

-----------------------------------------------------------------------------
(* The application: lifespan publishes the store, requests read it *)

possible_paths ==
    <<"BASE_DIR/data/sajuos_master_db.jsonl",
      "CWD/data/sajuos_master_db.jsonl",
      "/app/data/sajuos_master_db.jsonl",
      "data/sajuos_master_db.jsonl">>

\* for p in possible_paths: if os.path.exists(p): ... break
\* the index of the first candidate that exists, 0 when none does
FirstExisting(ex) ==
    LET S == {i \in 1..Len(ex) : ex[i]}
    IN  IF S = {} THEN 0 ELSE CHOOSE i \in S : \A j \in S : i <= j

\* variant: app.state.rulestore = rulestore comes before rulestore.load()
PublishedBeforeLoad(res) == "store"

\* rulestore.load(); app.state.rulestore = rulestore: an exception of load()
\* skips the assignment and app.state.rulestore stays None
Published(res) == IF res = LoadReturned THEN "store" ELSE "None"

\* lifespan up to yield: the flags, then the store of the first candidate
\* path that exists, constructed and loaded
Lifespan ==
    /\ rulestore = "unset"
    /\ \E k \in BOOLEAN : openai_ready' = k
    /\ \E k \in BOOLEAN : supabase_configured' = k
    /\ LET i == FirstExisting(candidate_exists)
       IN  IF i = 0
           THEN /\ rulestore' = "None"
                /\ startup_loads' = <<>>
                /\ UNCHANGED <<storeVars, load_result, cards_before>>
           ELSE LET p == possible_paths[i]
                    r == ReadLines(file_lines, LocalCards(<<>>))
                    m == build_topic_index(r.cards)
                    res == IF ~file_exists THEN FileNotFound(p)
                           ELSE IF r.raised # "" THEN LoadRaised(r.raised)
                           ELSE IF m.raised # "" THEN LoadRaised(m.raised)
                           ELSE LoadReturned
                IN  /\ path' = p
                    /\ startup_loads' = <<p>>
                    /\ load_result' = res
                    /\ cards' = IF file_exists /\ r.raised = ""
                                THEN r.cards ELSE <<>>
                    /\ by_topic' = IF res = LoadReturned THEN m.value ELSE <<>>
                    /\ idf' = IF res = LoadReturned
                              THEN build_idf(r.cards) ELSE <<>>
                    /\ cards_before' = IF res = LoadReturned
                                       THEN <<cards>> ELSE <<>>
                    /\ rulestore' = Published(res)
    /\ UNCHANGED <<fileVars, candidate_exists, tagVars, prioVars, reportVars, outVars,
                   load_pc>>

\* GET /ready
ReadinessCheck ==
    /\ rulestore # "unset"
    /\ LET checks == [openai |-> openai_ready,
                      rulecards |-> rulestore # "None",
                      supabase |-> supabase_configured]
           all_ready == checks.openai /\ checks.rulecards /\ checks.supabase
           rulecard_count == IF rulestore # "None" THEN Len(cards) ELSE 0
       IN  ready_out' =
              <<IF all_ready
                THEN [status_code |-> 200, status |-> "ready",
                      checks |-> checks, rulecards_loaded |-> rulecard_count]
                ELSE [status_code |-> 503, status |-> "not_ready",
                      checks |-> checks]>>
    /\ UNCHANGED <<storeVars, fileVars, load_result, cards_before, tagVars,
                   prioVars, reportVars, appVars, select_out, status_out, load_pc>>

TopWithoutTags == 100
TopWithTags == 50

\* str.lower() on the characters of the tags
str_lower(t) == [i \in 1..Len(t) |-> IF t[i] = "X" THEN "x" ELSE t[i]]

card_to_dict(c) ==
    [id |-> c.id, topic |-> c.topic, tags |-> c.tags, priority |-> c.priority]

\* the cards of cs one of whose tags, lowercased, is in feature_set
RECURSIVE MatchedCards(_, _)
MatchedCards(cs, feature_set) ==
    IF cs = <<>> THEN <<>>
    ELSE LET card == Head(cs)
             card_tags_lower ==
                 {str_lower(card.tags[i]) : i \in 1..Len(card.tags)}
         IN  IF feature_set \cap card_tags_lower # {}
             THEN <<card>> \o MatchedCards(Tail(cs), feature_set)
             ELSE MatchedCards(Tail(cs), feature_set)

\* [self._card_to_dict(c) for c in sorted(cs, key=priority, reverse=True)[:n]]
TopCards(cs, n) ==
    LET sorted_cards == SortByPriorityDesc(cs)
        selected == SubSeq(sorted_cards, 1, Min(n, Len(sorted_cards)))
    IN  [i \in 1..Len(selected) |-> card_to_dict(selected[i])]

select_rulecards(rs, all_cards, feature_tags) ==
    IF rs = "None" THEN <<>>
    ELSE IF all_cards = <<>> THEN <<>>
    ELSE IF feature_tags = <<>> THEN TopCards(all_cards, TopWithoutTags)
    ELSE LET feature_set ==
                 {str_lower(feature_tags[i]) : i \in 1..Len(feature_tags)}
             matched == MatchedCards(all_cards, feature_set)
         IN  IF matched # <<>> THEN TopCards(matched, TopWithTags)
             ELSE TopCards(all_cards, TopWithTags)

\* variant: all_cards.sort(key=priority, reverse=True) in place of sorted()
AfterSortInPlace(all_cards) == SortByPriorityDesc(all_cards)

\* sorted(all_cards, ...) builds a new list: rulestore.cards after the call
AfterSorted(all_cards) == all_cards

FeatureTagLists == {<<>>, <<<<"X", "X">>>>, <<TagGanMok, TagXX>>, <<<<"y">>>>}

\* ReportWorker._select_rulecards(app.state.rulestore, feature_tags)
SelectRulecards ==
    /\ rulestore # "unset"
    /\ \E feature_tags \in FeatureTagLists :
          select_out' =
             <<[feature_tags |-> feature_tags,
                rulecards |-> select_rulecards(rulestore, cards, feature_tags)]>>
    /\ cards' = IF rulestore = "None" THEN cards ELSE AfterSorted(cards)
    /\ UNCHANGED <<path, by_topic, idf, fileVars, load_result, cards_before,
                   tagVars, prioVars, reportVars, appVars, ready_out, status_out, load_pc>>

StatusTopics == 20

\* list(store.by_topic.keys())[:20], as the set of the keys listed
ListedTopics(keys) ==
    IF Cardinality(keys) <= StatusTopics THEN keys
    ELSE CHOOSE S \in SUBSET keys : Cardinality(S) = StatusTopics

\* GET /interpret/rulecards-status
GetRulecardsStatus ==
    /\ rulestore # "unset"
    /\ status_out' =
          <<IF rulestore = "store"
            THEN [loaded |-> TRUE, total_cards |-> Len(cards),
                  topics |-> ListedTopics(DOMAIN by_topic),
                  topics_count |-> Cardinality(DOMAIN by_topic)]
            ELSE [loaded |-> FALSE, total_cards |-> 0, topics |-> {},
                  topics_count |-> 0]>>
    /\ UNCHANGED <<storeVars, fileVars, load_result, cards_before, tagVars,
                   prioVars, reportVars, appVars, ready_out, select_out, load_pc>>

AppLines == {LineA, LineB, LineC, LineInvalid, LineList, LineTopicList}

AppFiles == UNION {[1..n -> AppLines] : n \in 0..MaxAppLines}

\* before lifespan runs: which candidate paths exist, and the file load()
\* will meet at the first of them (gone again, in the worst case)
InitApp ==
    /\ path = ""
    /\ cards = <<>>
    /\ by_topic = <<>>
    /\ idf = <<>>
    /\ candidate_exists \in [1..Len(possible_paths) -> BOOLEAN]
    /\ file_exists \in (IF FirstExisting(candidate_exists) = 0
                        THEN {FALSE} ELSE BOOLEAN)
    /\ file_lines \in (IF file_exists THEN AppFiles ELSE {<<>>})
    /\ load_result = LoadNotCalled
    /\ cards_before = <<>>
    /\ tag_in = NoTag /\ tag_canon = <<>> /\ tag_tokens = <<>>
    /\ prio_in = NoPriority /\ prio_out = <<>>
    /\ rulestore = "unset"
    /\ openai_ready = FALSE
    /\ supabase_configured = FALSE
    /\ startup_loads = <<>>
    /\ ready_out = <<>> /\ select_out = <<>> /\ status_out = <<>>
    /\ load_pc = LoadIdle
    /\ NoReports

NextApp == Lifespan \/ ReadinessCheck \/ SelectRulecards \/ GetRulecardsStatus

SpecApp == InitApp /\ [][NextApp]_vars

-----------------------------------------------------------------------------
(* _select_rulecards on stores whose cards may have a NaN priority *)

LineF ==
    LineJson(JObj([id |-> JStr("f"), topic |-> JStr("t2"),
                   tags |-> JList(<<TagXX, TagGanMok>>),
                   priority |-> JNum(Fixed(3))]))

SelectLines == {LineA, LineB, LineF, LineNaN}

SelectFiles == UNION {[1..n -> SelectLines] : n \in 0..MaxSelectLines}

\* before lifespan runs, as InitApp: every candidate path exists or none does
InitSelect ==
    /\ path = ""
    /\ cards = <<>>
    /\ by_topic = <<>>
    /\ idf = <<>>
    /\ candidate_exists \in {[i \in 1..Len(possible_paths) |-> b] : b \in BOOLEAN}
    /\ file_exists \in (IF FirstExisting(candidate_exists) = 0
                        THEN {FALSE} ELSE BOOLEAN)
    /\ file_lines \in (IF file_exists THEN SelectFiles ELSE {<<>>})
    /\ load_result = LoadNotCalled
    /\ cards_before = <<>>
    /\ tag_in = NoTag /\ tag_canon = <<>> /\ tag_tokens = <<>>
    /\ prio_in = NoPriority /\ prio_out = <<>>
    /\ rulestore = "unset"
    /\ openai_ready = FALSE
    /\ supabase_configured = FALSE
    /\ startup_loads = <<>>
    /\ ready_out = <<>> /\ select_out = <<>> /\ status_out = <<>>
    /\ load_pc = LoadIdle
    /\ NoReports

NextSelect == Lifespan \/ SelectRulecards

SpecSelect == InitSelect /\ [][NextSelect]_vars

-----------------------------------------------------------------------------
(* load() again on a published store, statement by statement, while        *)
(* requests read the store                                                  *)

\* lines 65-96: the existence test, the read loop, self.cards = cards
LoadReadFile ==
    /\ load_pc.line = 0
    /\ IF ~file_exists
       THEN /\ load_result' = FileNotFound(path)
            /\ UNCHANGED <<cards, load_pc>>
       ELSE LET r == ReadLines(file_lines, LocalCards(cards))
            IN  IF r.raised # ""
                THEN /\ load_result' = LoadRaised(r.raised)
                     /\ UNCHANGED <<cards, load_pc>>
                ELSE /\ cards' = r.cards
                     /\ load_pc' = [line |-> 97, was |-> cards]
                     /\ UNCHANGED load_result
    /\ UNCHANGED <<path, by_topic, idf, fileVars, cards_before, tagVars,
                   prioVars, reportVars, appVars, outVars>>

\* line 97: self.by_topic = self._build_topic_index()
LoadBuildTopicIndex ==
    /\ load_pc.line = 97
    /\ LET m == build_topic_index(cards)
       IN  IF m.raised # ""
           THEN /\ load_result' = LoadRaised(m.raised)
                /\ load_pc' = LoadIdle
                /\ UNCHANGED by_topic
           ELSE /\ by_topic' = m.value
                /\ load_pc' = [load_pc EXCEPT !.line = 98]
                /\ UNCHANGED load_result
    /\ UNCHANGED <<path, cards, idf, fileVars, cards_before, tagVars,
                   prioVars, reportVars, appVars, outVars>>

\* line 98: self.idf = self._build_idf(), and load() returns
LoadBuildIdf ==
    /\ load_pc.line = 98
    /\ idf' = build_idf(cards)
    /\ load_result' = LoadReturned
    /\ cards_before' = <<load_pc.was>>
    /\ load_pc' = LoadIdle
    /\ UNCHANGED <<path, cards, by_topic, fileVars, tagVars, prioVars, reportVars,
                   appVars, outVars>>

\* a store that lifespan published: loaded from the file at the last
\* candidate path
InitReload ==
    /\ path = possible_paths[4]
    /\ file_exists = TRUE
    /\ file_lines \in AppFiles
    /\ LET r == ReadLines(file_lines, LocalCards(<<>>))
           m == build_topic_index(r.cards)
       IN  /\ r.raised = ""
           /\ m.raised = ""
           /\ cards = r.cards
           /\ by_topic = m.value
           /\ idf = build_idf(r.cards)
    /\ load_result = LoadReturned
    /\ cards_before = << <<>> >>
    /\ tag_in = NoTag /\ tag_canon = <<>> /\ tag_tokens = <<>>
    /\ prio_in = NoPriority /\ prio_out = <<>>
    /\ rulestore = "store"
    /\ openai_ready \in BOOLEAN
    /\ supabase_configured \in BOOLEAN
    /\ candidate_exists = <<FALSE, FALSE, FALSE, TRUE>>
    /\ startup_loads = <<possible_paths[4]>>
    /\ ready_out = <<>> /\ select_out = <<>> /\ status_out = <<>>
    /\ load_pc = LoadIdle
    /\ NoReports

NextReload ==
    \/ LoadReadFile
    \/ LoadBuildTopicIndex
    \/ LoadBuildIdf
    \/ GetRulecardsStatus
    \/ RemoveFile
    \/ WriteFile

SpecReload == InitReload /\ [][NextReload]_vars

-----------------------------------------------------------------------------
(* Report endpoints: GET /view/{job_id}, GET /{job_id}/result and          *)
(* GET /{job_id}/status.  A text is the sequence of its pieces (a stored   *)
(* string, a title or a literal of the code is one piece); the empty       *)
(* sequence is the empty string.  Rows are JSON objects.                   *)

MaxSections == 3

SECTION_ORDER ==
    <<"exec", "money", "business", "team", "health", "calendar", "sprint">>

\* the titles of SECTION_SPECS, in its order
SECTION_TITLES ==
    <<"Executive Summary", "Money & Cashflow", "Business Strategy",
      "Team & Partner", "Health & Performance", "12-Month Calendar",
      "90-Day Sprint">>

\* v in SECTION_ORDER
InSectionOrder(v) ==
    v.t = "str" /\ \E i \in 1..Len(SECTION_ORDER) : SECTION_ORDER[i] = v.s

\* SECTION_ORDER.index(v), for v in SECTION_ORDER
section_index(v) == CHOOSE i \in 0..(Len(SECTION_ORDER) - 1) : SECTION_ORDER[i + 1] = v.s

\* get_section_title(section_id)
get_section_title(section_id) ==
    IF InSectionOrder(section_id) THEN SECTION_TITLES[section_index(section_id) + 1]
    ELSE IF Truthy(section_id) THEN section_id.s
    ELSE "Unknown"

\* the key sorted() is given, with an unknown id placed before every known one
section_sort_key_unknown_first(x) ==
    IF InSectionOrder(dict_get(x, "section_id", JNull))
    THEN section_index(dict_get(x, "section_id", JStr("")))
    ELSE 0 - 1

\* lambda x: SECTION_ORDER.index(x.get("section_id", ""))
\*           if x.get("section_id") in SECTION_ORDER else 999
section_sort_key(x) ==
    IF InSectionOrder(dict_get(x, "section_id", JNull))
    THEN section_index(dict_get(x, "section_id", JStr("")))
    ELSE 999

\* sorted(sections_raw or [], key=...): the rows are compared by their keys
sorted_sections(rows) ==
    LET keyed == [i \in 1..Len(rows) |->
                     [priority |-> section_sort_key(rows[i]), row |-> rows[i]]]
        s == list_sort(keyed)
    IN  [i \in 1..Len(rows) |-> s[i].row]

\* a stored string as a text
Text(v) == IF v.s = "" THEN <<>> ELSE <<v.s>>

\* build_markdown_from_raw_json(section_id, raw_json), for a raw_json that
\* has none of the keys the later blocks render: the heading line alone
build_markdown_from_raw_json(section_id, raw_json) ==
    LET t == dict_get(raw_json, "title", JNull)
        title == IF Truthy(t) THEN t.s ELSE get_section_title(section_id)
    IN  <<"## ", title, "\n">>

\* extract_markdown_from_section(section)
extract_markdown_from_section(section) ==
    LET raw == dict_get(section, "raw_json", JNull)
        markdown == dict_get(section, "markdown", JNull)
        content == dict_get(section, "content", JNull)
        body == IF Truthy(raw) THEN dict_get(raw, "body_markdown", JNull) ELSE JNull
        raw_content == IF Truthy(raw) THEN dict_get(raw, "content", JNull) ELSE JNull
    IN  IF Truthy(markdown) THEN Text(markdown)
        ELSE IF Truthy(content) THEN Text(content)
        ELSE IF Truthy(body) THEN Text(body)
        ELSE IF Truthy(raw_content) THEN Text(raw_content)
        ELSE IF Truthy(raw)
             THEN build_markdown_from_raw_json(
                      dict_get(section, "section_id", JStr("")), raw)
        ELSE <<>>

\* one element of sections_normalized (the fields the two endpoints share)
normalized_section(s) ==
    LET section_id == dict_get(s, "section_id", JStr(""))
    IN  [section_id |-> section_id,
         title |-> get_section_title(section_id),
         markdown |-> extract_markdown_from_section(s),
         status |-> dict_get(s, "status", JNull)]

sections_normalized(rows) ==
    LET sorted == sorted_sections(rows)
    IN  [i \in 1..Len(rows) |-> normalized_section(sorted[i])]

\* f"# {s['title']}\n\n{s['markdown']}" for the sections s with s.get("markdown")
RECURSIVE full_markdown_parts(_)
full_markdown_parts(ns) ==
    IF ns = <<>> THEN <<>>
    ELSE LET s == Head(ns)
         IN  (IF s.markdown # <<>>
              THEN << <<"# ", s.title, "\n\n">> \o s.markdown >>
              ELSE <<>>)
             \o full_markdown_parts(Tail(ns))

\* sep.join(parts), on texts
RECURSIVE text_join(_, _)
text_join(sep, parts) ==
    IF parts = <<>> THEN <<>>
    ELSE IF Len(parts) = 1 THEN parts[1]
    ELSE parts[1] \o <<sep>> \o text_join(sep, Tail(parts))

full_markdown(ns) == text_join("\n\n---\n\n", full_markdown_parts(ns))

\* GET /view/{job_id}, for a valid token
ViewReport ==
    /\ db_job # <<>>
    /\ LET ns == sections_normalized(db_sections)
       IN  view_out' = <<[sections |-> ns, full_markdown |-> full_markdown(ns),
                          section_count |-> Len(ns)]>>
    /\ UNCHANGED <<ruleVars, dbVars, result_out, job_status_out, retryVars,
                   workerVars>>

\* GET /{job_id}/result
GetReportResult ==
    /\ db_job # <<>>
    /\ IF db_job[1].status # "completed"
       THEN result_out' = <<[completed |-> FALSE, sections |-> <<>>,
                             full_markdown |-> <<>>]>>
       ELSE LET ns == sections_normalized(db_sections)
            IN  result_out' = <<[completed |-> TRUE, sections |-> ns,
                                 full_markdown |-> full_markdown(ns)]>>
    /\ UNCHANGED <<ruleVars, dbVars, view_out, job_status_out, retryVars,
                   workerVars>>

SectionRow(id, md) == JObj([section_id |-> JStr(id), markdown |-> JStr(md)])

\* rows get_sections may return: known and unknown ids, a row without
\* section_id, one with a null section_id, markdown stored in each of the
\* places extract_markdown_from_section looks at, or in none
SectionRows ==
    { SectionRow("exec", "m1"),
      SectionRow("exec", "m2"),
      SectionRow("sprint", ""),
      JObj([section_id |-> JStr("money"), markdown |-> JStr(""),
            content |-> JStr("c1")]),
      JObj([section_id |-> JStr("team"),
            raw_json |-> JObj([body_markdown |-> JStr("b1")])]),
      JObj([section_id |-> JStr("health"),
            raw_json |-> JObj([confidence |-> JStr("HIGH")])]),
      SectionRow("appendix", "m3"),
      SectionRow("zeta", ""),
      JObj([markdown |-> JStr("m4")]),
      JObj([section_id |-> JNull, markdown |-> JStr("m5")]) }

SectionLists == UNION {[1..n -> SectionRows] : n \in 0..MaxSections}

ViewJobs == {[status |-> "completed", progress |-> 100],
             [status |-> "running", progress |-> 35]}

InitView ==
    /\ AppNotStarted
    /\ path = ""
    /\ cards = <<>>
    /\ by_topic = <<>>
    /\ idf = <<>>
    /\ file_exists = FALSE
    /\ file_lines = <<>>
    /\ load_result = LoadNotCalled
    /\ cards_before = <<>>
    /\ tag_in = NoTag /\ tag_canon = <<>> /\ tag_tokens = <<>>
    /\ prio_in = NoPriority /\ prio_out = <<>>
    /\ db_job \in {<<j>> : j \in ViewJobs}
    /\ db_sections \in SectionLists
    /\ view_out = <<>> /\ result_out = <<>> /\ job_status_out = <<>>
    /\ RetryIdle
    /\ WorkerIdle

NextView == ViewReport \/ GetReportResult

SpecView == InitView /\ [][NextView]_vars

-----------------------------------------------------------------------------
(* PremiumReportBuilder._call_openai_with_retry, taken from await to await *)

MaxRetries == 3

\* the exceptions of the first two except clauses
RetryableErrors ==
    {"RateLimitError", "APIError", "APIConnectionError", "APITimeoutError"}

\* how one chat.completions.create call with the reading of its content can
\* end: "ok", a retryable error or any other exception
CreateOutcomes == {"ok"} \cup RetryableErrors \cup {"Exception"}

\* if attempt < max_retries - 1, with the wait taken after every failure
sleeps_after_always(a, n) == TRUE

\* if attempt < max_retries - 1
sleeps_after(a, n) == a < n - 1

\* the loop goes to its next round, or ends and the last error is raised
NextAttempt ==
    /\ attempt' = attempt + 1
    /\ IF attempt + 1 < max_retries
       THEN /\ retry_pc' = "create"
            /\ call_result' = call_result
       ELSE /\ retry_pc' = "done"
            /\ call_result' = <<[kind |-> "raised", value |-> last_error'[1]]>>

\* one round of the loop up to its return, its raise or its await of sleep
CallCreate ==
    /\ retry_pc = "create"
    /\ \E o \in CreateOutcomes :
          LET e == [type |-> o, call |-> attempt + 1]
          IN  /\ api_log' = Append(api_log, [event |-> "create", outcome |-> o])
              /\ IF o = "ok"
                 THEN /\ call_result' = <<[kind |-> "returned", value |-> e]>>
                      /\ retry_pc' = "done"
                      /\ UNCHANGED <<attempt, last_error>>
                 ELSE IF o \in RetryableErrors
                 THEN /\ last_error' = <<e>>
                      /\ IF sleeps_after(attempt, max_retries)
                         THEN /\ retry_pc' = "sleep"
                              /\ UNCHANGED <<attempt, call_result>>
                         ELSE NextAttempt
                 ELSE /\ last_error' = <<e>>
                      /\ call_result' = <<[kind |-> "raised", value |-> e]>>
                      /\ retry_pc' = "done"
                      /\ UNCHANGED attempt
    /\ UNCHANGED <<ruleVars, dbVars, viewVars, max_retries, workerVars>>

\* asyncio.sleep(delay) returns
SleepReturns ==
    /\ retry_pc = "sleep"
    /\ api_log' = Append(api_log, [event |-> "sleep", outcome |-> "ok"])
    /\ UNCHANGED <<ruleVars, dbVars, viewVars, max_retries, last_error,
                   workerVars>>
    /\ NextAttempt

InitRetry ==
    /\ AppNotStarted
    /\ path = ""
    /\ cards = <<>>
    /\ by_topic = <<>>
    /\ idf = <<>>
    /\ file_exists = FALSE
    /\ file_lines = <<>>
    /\ load_result = LoadNotCalled
    /\ cards_before = <<>>
    /\ tag_in = NoTag /\ tag_canon = <<>> /\ tag_tokens = <<>>
    /\ prio_in = NoPriority /\ prio_out = <<>>
    /\ NoReportRequests
    /\ max_retries \in 1..MaxRetries
    /\ attempt = 0
    /\ last_error = <<>>
    /\ api_log = <<>>
    /\ call_result = <<>>
    /\ retry_pc = "create"
    /\ WorkerIdle

NextRetry == CallCreate \/ SleepReturns

SpecRetry == InitRetry /\ [][NextRetry]_vars

-----------------------------------------------------------------------------
(* ReportWorker: run_job, _execute_job and _generate_section_with_guardrail *)
(* for one job id, taken from await to await.  The calls on the persistence *)
(* service either return or raise; what a call that returns writes is what *)
(* SupabaseService writes.  job_log holds the calls of the latest           *)
(* execution, each a record [call, arg, outcome, flag].                     *)

MaxTasks == 2
MaxInvocations == 2
MaxRaises == 1

Tasks == 1..MaxTasks

JobId == "job"

\* len(SECTION_SPECS)
total_sections == Len(SECTION_ORDER)

TaskIdle == [pc |-> "idle", idx |-> 0, failed_sections |-> <<>>,
             guardrail_ok |-> FALSE]

\* _clamp_progress(p), for an int p
clamp_progress(p) == IF p < 0 THEN 0 ELSE IF p > 100 THEN 100 ELSE p

\* the row after an update of the report_jobs row (no row: nothing to update)
UpdatedJob(status, progress) ==
    IF db_job = <<>> THEN db_job
    ELSE <<[status |-> status, progress |-> clamp_progress(progress)]>>

JobEvent(call, arg, outcome, flag) ==
    [call |-> call, arg |-> arg, outcome |-> outcome, flag |-> flag]

\* how a call on the persistence service can end
PersistenceOutcomes == IF raises < MaxRaises THEN {"ok", "raised"} ELSE {"ok"}

\* the call ended as o
Persisted(o) == raises' = IF o = "raised" THEN raises + 1 ELSE raises

\* int((idx / total_sections) * 100) + 10
section_progress_of_100(idx) == ((idx * 100) \div total_sections) + 10

\* int((idx / total_sections) * 90) + 10
section_progress(idx) == ((idx * 90) \div total_sections) + 10

\* the parameters of regenerate_single_section, had it one named feature_tags
regenerate_single_section_params_with_feature_tags ==
    {"section_id", "saju_data", "rulecards", "feature_tags", "target_year",
     "user_question"}

\* the parameters of PremiumReportBuilder.regenerate_single_section
regenerate_single_section_params ==
    {"section_id", "saju_data", "rulecards", "target_year", "user_question"}

\* the keywords _generate_section_with_guardrail calls it with
worker_call_keywords ==
    {"section_id", "saju_data", "rulecards", "feature_tags", "target_year",
     "user_question"}

\* how a call of regenerate_single_section with the keywords kw can end: a
\* TypeError when a keyword is no parameter; otherwise the body runs and
\* returns its success result, returns its failure result or raises
BuilderOutcomes(kw) ==
    IF kw \subseteq regenerate_single_section_params
    THEN {"success", "failure", "raised"}
    ELSE {"raised"}

\* result.get("ok", True) for the result of a call that returned: neither
\* result of regenerate_single_section has the key "ok"
result_ok(outcome) == TRUE

\* the except clause of _generate_section_with_guardrail, re-raising
guardrail_except_reraises == [raised |-> TRUE, ok |-> FALSE]

\* the except clause of _generate_section_with_guardrail
guardrail_except == [raised |-> FALSE, ok |-> FALSE]

\* if not ok and max_retries > 0, with max_retries = 2
rewrite_wanted(ok) == ~ok

\* _generate_section_with_guardrail, given how its builder calls end: o1 the
\* first call, o2 the rewrite if there is one; calls is the builder calls made
generate_section_with_guardrail(o1, o2) ==
    IF o1 = "raised"
    THEN [calls |-> <<o1>>, result |-> guardrail_except]
    ELSE IF ~rewrite_wanted(result_ok(o1))
    THEN [calls |-> <<o1>>, result |-> [raised |-> FALSE, ok |-> result_ok(o1)]]
    ELSE IF o2 = "raised"
    THEN [calls |-> <<o1, o2>>, result |-> guardrail_except]
    ELSE [calls |-> <<o1, o2>>, result |-> [raised |-> FALSE, ok |-> result_ok(o2)]]

\* where the loop over SECTION_SPECS goes after the round of idx, were a
\* failed section to end it
next_round_abort_on_failure(idx, failed) ==
    IF idx + 1 < total_sections /\ failed = <<>> THEN "progress" ELSE "finish"

\* where the loop over SECTION_SPECS goes after the round of idx
next_round(idx, failed) ==
    IF idx + 1 < total_sections THEN "progress" ELSE "finish"

\* the finally clause of run_job, and the return of the call
RunJobReturns(t) ==
    /\ running_jobs' = running_jobs \ {JobId}
    /\ task' = [task EXCEPT ![t] = TaskIdle]

\* the check of _running_jobs that ignores what it finds
already_running_ignored == FALSE

\* job_id in self._running_jobs
already_running == JobId \in running_jobs

\* run_job up to its first await: the duplicate call returns, any other
\* registers the job id and enters _execute_job
RunJob(t) ==
    /\ task[t].pc = "idle"
    /\ invocations < MaxInvocations
    /\ invocations' = invocations + 1
    /\ IF already_running
       THEN UNCHANGED <<running_jobs, task, job_log>>
       ELSE /\ running_jobs' = running_jobs \cup {JobId}
            /\ task' = [task EXCEPT ![t] = [TaskIdle EXCEPT !.pc = "get_job"]]
            /\ job_log' = <<>>
    /\ UNCHANGED <<ruleVars, dbVars, viewVars, retryVars, raises>>

\* _execute_job line 75 to the await of line 87
GetJob(t) ==
    /\ task[t].pc = "get_job"
    /\ \E o \in PersistenceOutcomes :
          /\ Persisted(o)
          /\ job_log' = Append(job_log, JobEvent("get_job", 0, o, db_job # <<>>))
          /\ IF o = "raised"
             THEN task' = [task EXCEPT ![t].pc = "except"]
             ELSE IF db_job = <<>>
             THEN task' = [task EXCEPT ![t].pc = "except"]
             ELSE task' = [task EXCEPT ![t].pc = "start"]
    /\ UNCHANGED <<ruleVars, dbVars, viewVars, retryVars, running_jobs, invocations>>

\* the update_progress(job_id, 5, "running") of line 87 to the loop
StartProgress(t) ==
    /\ task[t].pc = "start"
    /\ \E o \in PersistenceOutcomes :
          /\ Persisted(o)
          /\ job_log' = Append(job_log, JobEvent("update_progress", 5, o, FALSE))
          /\ IF o = "raised"
             THEN /\ task' = [task EXCEPT ![t].pc = "except"]
                  /\ UNCHANGED db_job
             ELSE /\ task' = [task EXCEPT ![t].pc = "progress", ![t].idx = 0]
                  /\ db_job' = UpdatedJob("running", 5)
    /\ UNCHANGED <<ruleVars, db_sections, viewVars, retryVars, running_jobs,
                   invocations>>

\* lines 105 to 108: the progress update that opens a round of the loop
SectionProgress(t) ==
    /\ task[t].pc = "progress"
    /\ \E o \in PersistenceOutcomes :
          LET progress == section_progress(task[t].idx)
          IN  /\ Persisted(o)
              /\ job_log' = Append(job_log,
                                   JobEvent("update_progress", progress, o, FALSE))
              /\ IF o = "raised"
                 THEN /\ task' = [task EXCEPT ![t].pc = "except"]
                      /\ UNCHANGED db_job
                 ELSE /\ task' = [task EXCEPT ![t].pc = "generate"]
                      /\ db_job' = UpdatedJob("running", progress)
    /\ UNCHANGED <<ruleVars, db_sections, viewVars, retryVars, running_jobs,
                   invocations>>

RECURSIVE BuilderEvents(_, _)
BuilderEvents(idx, calls) ==
    IF calls = <<>> THEN <<>>
    ELSE <<JobEvent("regenerate_single_section", idx, Head(calls), FALSE)>>
         \o BuilderEvents(idx, Tail(calls))

\* lines 111 to 129: _generate_section_with_guardrail and the reading of
\* its result, up to the await of save_section
GenerateSection(t) ==
    /\ task[t].pc = "generate"
    /\ \E o1 \in BuilderOutcomes(worker_call_keywords) :
       \E o2 \in BuilderOutcomes(worker_call_keywords) :
          LET g == generate_section_with_guardrail(o1, o2)
              idx == task[t].idx
              log == job_log \o BuilderEvents(idx, g.calls)
          IN  IF g.result.raised
              THEN /\ job_log' = Append(log,
                         JobEvent("generate_section", idx, "raised", FALSE))
                   /\ task' = [task EXCEPT
                         ![t].failed_sections = Append(@, idx),
                         ![t].idx = idx + 1,
                         ![t].pc = next_round(idx, Append(task[t].failed_sections, idx))]
              ELSE /\ job_log' = Append(log,
                         JobEvent("generate_section", idx, "ok", g.result.ok))
                   /\ task' = [task EXCEPT
                         ![t].guardrail_ok = g.result.ok,
                         ![t].failed_sections =
                             IF g.result.ok THEN @ ELSE Append(@, idx),
                         ![t].pc = "save"]
    /\ UNCHANGED <<ruleVars, dbVars, viewVars, retryVars, running_jobs, invocations,
                   raises>>

\* the statuses a saved section row may carry
SavedStatuses == {"completed"}

\* the rows after the upsert of the row of section_id
UpsertSection(rows, section_id, status) ==
    LET row == JObj([section_id |-> JStr(section_id), status |-> JStr(status)])
    IN  IF \E i \in 1..Len(rows) : rows[i].fields.section_id = JStr(section_id)
        THEN [i \in 1..Len(rows) |->
                 IF rows[i].fields.section_id = JStr(section_id) THEN row ELSE rows[i]]
        ELSE Append(rows, row)

\* the save_section of line 131 to the end of the round (lines 141 to 149)
SaveSection(t) ==
    /\ task[t].pc = "save"
    /\ LET idx == task[t].idx
       IN  \E o \in PersistenceOutcomes :
              /\ Persisted(o)
              /\ job_log' = Append(job_log,
                     JobEvent("save_section", idx, o, task[t].guardrail_ok))
              /\ IF o = "raised"
                 THEN /\ task' = [task EXCEPT
                            ![t].failed_sections = Append(@, idx),
                            ![t].idx = idx + 1,
                            ![t].pc = next_round(idx, Append(task[t].failed_sections, idx))]
                      /\ UNCHANGED db_sections
                 ELSE /\ task' = [task EXCEPT
                            ![t].idx = idx + 1,
                            ![t].pc = next_round(idx, task[t].failed_sections)]
                      /\ \E s \in SavedStatuses :
                            db_sections' = UpsertSection(db_sections,
                                                         SECTION_ORDER[idx + 1], s)
    /\ UNCHANGED <<ruleVars, db_job, viewVars, retryVars, running_jobs, invocations>>

\* lines 152 to 186 and the return through run_job: fail_job when a section
\* failed, complete_job otherwise
FinishJob(t) ==
    /\ task[t].pc = "finish"
    /\ \E o \in PersistenceOutcomes :
          LET call == IF task[t].failed_sections # <<>>
                      THEN "fail_job" ELSE "complete_job"
              status == IF task[t].failed_sections # <<>>
                        THEN "failed" ELSE "completed"
          IN  /\ Persisted(o)
              /\ job_log' = Append(job_log, JobEvent(call, 0, o, FALSE))
              /\ IF o = "raised"
                 THEN /\ task' = [task EXCEPT ![t].pc = "except"]
                      /\ UNCHANGED <<db_job, running_jobs>>
                 ELSE /\ db_job' = UpdatedJob(status, 100)
                      /\ RunJobReturns(t)
    /\ UNCHANGED <<ruleVars, db_sections, viewVars, retryVars, invocations>>

\* the handler that leaves the job as it is
except_without_fail_job == FALSE

\* the except clause of run_job calls fail_job
except_calls_fail_job == TRUE

\* lines 51 to 67: the except clause of run_job and its finally clause
HandleException(t) ==
    /\ task[t].pc = "except"
    /\ IF except_calls_fail_job
       THEN \E o \in PersistenceOutcomes :
               /\ Persisted(o)
               /\ job_log' = Append(job_log, JobEvent("fail_job", 1, o, FALSE))
               /\ db_job' = IF o = "ok" THEN UpdatedJob("failed", 100) ELSE db_job
       ELSE UNCHANGED <<job_log, db_job, raises>>
    /\ RunJobReturns(t)
    /\ UNCHANGED <<ruleVars, db_sections, viewVars, retryVars, invocations>>

\* len([s for s in sections_data if s.get("status") in (...)]
RECURSIVE completed_sections(_)
completed_sections(rows) ==
    IF rows = <<>> THEN 0
    ELSE (IF dict_get(Head(rows), "status", JNull)
                \in {JStr("completed"), JStr("done"), JStr("success")}
          THEN 1 ELSE 0) + completed_sections(Tail(rows))

\* max(a, b)
Max(a, b) == IF a >= b THEN a ELSE b

\* GET /{job_id}/status
GetJobStatus ==
    /\ IF db_job = <<>>
       THEN job_status_out' = <<[status |-> "404", progress |-> 0]>>
       ELSE LET completed == completed_sections(db_sections)
                progress == Max(db_job[1].progress, (completed * 100) \div 7)
            IN  job_status_out' = <<[status |-> db_job[1].status,
                                     progress |-> progress]>>
    /\ UNCHANGED <<ruleVars, dbVars, view_out, result_out, retryVars, workerVars>>

InitJob ==
    /\ AppNotStarted
    /\ path = ""
    /\ cards = <<>>
    /\ by_topic = <<>>
    /\ idf = <<>>
    /\ file_exists = FALSE
    /\ file_lines = <<>>
    /\ load_result = LoadNotCalled
    /\ cards_before = <<>>
    /\ tag_in = NoTag /\ tag_canon = <<>> /\ tag_tokens = <<>>
    /\ prio_in = NoPriority /\ prio_out = <<>>
    /\ RetryIdle
    /\ db_job \in {<<>>, <<[status |-> "pending", progress |-> 0]>>}
    /\ db_sections = <<>>
    /\ view_out = <<>> /\ result_out = <<>> /\ job_status_out = <<>>
    /\ running_jobs = {}
    /\ task = [t \in Tasks |-> TaskIdle]
    /\ job_log = <<>>
    /\ invocations = 0
    /\ raises = 0

NextJob ==
    \/ \E t \in Tasks :
          \/ RunJob(t)
          \/ GetJob(t)
          \/ StartProgress(t)
          \/ SectionProgress(t)
          \/ GenerateSection(t)
          \/ SaveSection(t)
          \/ FinishJob(t)
          \/ HandleException(t)
    \/ GetJobStatus

SpecJob == InitJob /\ [][NextJob]_vars

\* the worker alone, every run_job call that can take a step taking one
NextWorker ==
    \E t \in Tasks :
       \/ RunJob(t)
       \/ GetJob(t)
       \/ StartProgress(t)
       \/ SectionProgress(t)
       \/ GenerateSection(t)
       \/ SaveSection(t)
       \/ FinishJob(t)
       \/ HandleException(t)

ExecutionStep(t) ==
    \/ GetJob(t)
    \/ StartProgress(t)
    \/ SectionProgress(t)
    \/ GenerateSection(t)
    \/ SaveSection(t)
    \/ FinishJob(t)
    \/ HandleException(t)

SpecJobFair ==
    InitJob /\ [][NextWorker]_vars /\ \A t \in Tasks : WF_vars(ExecutionStep(t))

-----------------------------------------------------------------------------
(* Vocabulary of the properties *)

\* a value that counts as empty: null (also a missing key), "" or []
ClaimEmpty(v) ==
    \/ v.t = "null"
    \/ v.t = "str" /\ v.s = ""
    \/ v.t = "list" /\ v.items = <<>>

ClaimField(l, k) ==
    IF k \in DOMAIN l.json.fields THEN l.json.fields[k] ELSE JNull

ClaimIsObject(l) == l.text = "json" /\ l.json.t = "obj"

\* a line that produces no card: blank, unparseable, or an object whose id,
\* topic or tags is missing or empty
ClaimSkipped(l) ==
    \/ l.text \in {"blank", "invalid"}
    \/ /\ ClaimIsObject(l)
       /\ \E k \in {"id", "topic", "tags"} : ClaimEmpty(ClaimField(l, k))

\* a qualifying record: an object with non-empty id, topic and tags
ClaimQualifying(l) ==
    /\ ClaimIsObject(l)
    /\ \A k \in {"id", "topic", "tags"} : ~ClaimEmpty(ClaimField(l, k))

\* a qualifying record of the documented shape: string id and topic, list tags
ClaimWellTyped(l) ==
    /\ ClaimQualifying(l)
    /\ ClaimField(l, "id").t = "str"
    /\ ClaimField(l, "topic").t = "str"
    /\ ClaimField(l, "tags").t = "list"

\* the qualifying records of a file, in file order
RECURSIVE ClaimSurvivors(_)
ClaimSurvivors(f) ==
    IF f = <<>> THEN <<>>
    ELSE IF ClaimQualifying(Head(f))
         THEN <<Head(f)>> \o ClaimSurvivors(Tail(f))
         ELSE ClaimSurvivors(Tail(f))

\* cs holds one card per qualifying record of f, in file order
ClaimCardsOf(cs, f) ==
    LET q == ClaimSurvivors(f)
    IN  /\ Len(cs) = Len(q)
        /\ \A j \in 1..Len(q) :
              /\ cs[j].id = ClaimField(q[j], "id")
              /\ cs[j].topic = ClaimField(q[j], "topic")

\* a step that is a load() call on an existing file
LoadStepOnFile == file_exists /\ UNCHANGED <<fileVars, path, tagVars, prioVars>>

\* a step that is a load() call while the file is missing
LoadStepNoFile == ~file_exists /\ UNCHANGED <<fileVars, path, tagVars, prioVars>>

\* a file whose anomalies are only blank lines, unparseable lines and
\* objects with a missing or empty required field
ClaimTolerableFile(f) ==
    \A i \in 1..Len(f) : ClaimSkipped(f[i]) \/ ClaimWellTyped(f[i])

\* trim and collapse whitespace, position by position: a whitespace character
\* survives, as one space, when it follows a non-whitespace character and a
\* non-whitespace character comes later
RECURSIVE ClaimCollapseFrom(_, _)
ClaimCollapseFrom(t, i) ==
    IF i > Len(t) THEN <<>>
    ELSE (IF t[i] \notin Whitespace THEN <<t[i]>>
          ELSE IF /\ i > 1
                  /\ t[i - 1] \notin Whitespace
                  /\ \E j \in (i + 1)..Len(t) : t[j] \notin Whitespace
               THEN <<" ">>
               ELSE <<>>) \o ClaimCollapseFrom(t, i + 1)

ClaimNormalized(t) == ClaimCollapseFrom(t, 1)

ClaimNoSpace(t) == \A i \in 1..Len(t) : t[i] # " "

ClaimNoDup(q) == \A i, j \in 1..Len(q) : q[i] = q[j] => i = j

\* the space-separated parts of c that have at least 2 characters, as intervals
ClaimLongParts(c) ==
    {p \in (1..Len(c)) \X (1..Len(c)) :
        /\ p[2] - p[1] + 1 >= 2
        /\ \A i \in p[1]..p[2] : c[i] # " "
        /\ p[1] = 1 \/ c[p[1] - 1] = " "
        /\ p[2] = Len(c) \/ c[p[2] + 1] = " "}

ClaimPartToken(c, p) == canon_tag(SubSeq(c, p[1], p[2]))

\* position of the first occurrence of token x: 0 for the whole tag
ClaimRank(c, x) ==
    IF x = c THEN 0
    ELSE LET starts == {p[1] : p \in {q \in ClaimLongParts(c) : ClaimPartToken(c, q) = x}}
         IN  CHOOSE a \in starts : \A b \in starts : a <= b

\* out is the whole-tag token c followed by the tokens of its long parts in
\* order of first occurrence, nothing repeated
ClaimExploded(out, c) ==
    /\ Len(out) >= 1
    /\ out[1] = c
    /\ ClaimNoDup(out)
    /\ SeqToSet(out) = {c} \cup {ClaimPartToken(c, p) : p \in ClaimLongParts(c)}
    /\ \A i, j \in 1..Len(out) :
          i < j => ClaimRank(c, out[i]) < ClaimRank(c, out[j])

-----------------------------------------------------------------------------
(* Properties *)

\* C1: for every existing file, after load() cards holds exactly one card
\* per qualifying record, no other card, in file order.
\* The code does not do this: a line that is JSON but not an object ends
\* load() before cards is assigned.
Orig_C1 ==
    [][LoadStepOnFile => ClaimCardsOf(cards', file_lines)]_vars

\* C2: blank lines, unparseable lines and objects with a missing or empty
\* id, topic or tags produce no card and do not stop loading: a file with no
\* other anomaly is loaded to the cards of its qualifying lines; and every
\* card of every state has a non-empty id, topic and tags list.
Thm_C2 ==
    [][/\ \A i \in 1..Len(cards') :
             /\ ~ClaimEmpty(cards'[i].id)
             /\ ~ClaimEmpty(cards'[i].topic)
             /\ cards'[i].tags # <<>>
       /\ (LoadStepOnFile /\ ClaimTolerableFile(file_lines))
             => /\ load_result' = LoadReturned
                /\ ClaimCardsOf(cards', file_lines)]_vars

Wit_C2 ==
    /\ load_result = LoadReturned
    /\ Len(file_lines) = 3
    /\ file_lines[1].text = "invalid"
    /\ ClaimIsObject(file_lines[2]) /\ ClaimSkipped(file_lines[2])
    /\ ClaimWellTyped(file_lines[3])
    /\ Len(cards) = 1
    /\ cards[1].id = ClaimField(file_lines[3], "id")

\* C3: for every file that exists, whatever its lines contain, load()
\* returns normally.
\* The code does not do this: obj.get on a list, number, string or null
\* raises AttributeError, and a number as tags raises TypeError.
Orig_C3 ==
    [][LoadStepOnFile => load_result' = LoadReturned]_vars

\* C4: load() on a missing path fails with a not-found error naming the
\* path and leaves cards, by_topic and idf as they were.
Thm_C4 ==
    [][LoadStepNoFile =>
          /\ load_result' = [kind |-> "FileNotFoundError", path |-> path]
          /\ UNCHANGED <<cards, by_topic, idf>>]_vars

Wit_C4 ==
    /\ ~file_exists
    /\ load_result.kind = "FileNotFoundError"
    /\ load_result.path = path
    /\ cards # <<>>
    /\ DOMAIN by_topic # {}
    /\ DOMAIN idf # {}

\* C5: safe_priority returns a value in [0, 10] for every input, so every
\* loaded card has 0 <= priority <= 10.
\* The code does not do this: a negative number is returned unchanged.
Orig_C5 ==
    /\ prio_out # <<>> => (0 <= prio_out[1] /\ prio_out[1] <= Fixed(10))
    /\ \A i \in 1..Len(cards) :
          0 <= cards[i].priority /\ cards[i].priority <= Fixed(10)

\* C6: for a value that parses as the number v, safe_priority returns v
\* when v <= 10, v / 10 when 10 < v <= 100, and 10 when v > 100.
Thm_C6 ==
    (prio_out # <<>> /\ prio_in.t \in {"num", "numstr"}) =>
        LET v == prio_in.n
            r == prio_out[1]
        IN  /\ v <= Fixed(10) => r = v
            /\ (Fixed(10) < v /\ v <= Fixed(100)) => r * 10 = v
            /\ v > Fixed(100) => r = Fixed(10)

Wit_C6 ==
    /\ prio_out # <<>>
    /\ prio_in.t = "numstr"
    /\ prio_in.n > Fixed(100)
    /\ prio_out[1] = Fixed(10)

\* a record whose priority is absent or is no number
ClaimUnparseablePriority(l) ==
    \/ "priority" \notin DOMAIN l.json.fields
    \/ l.json.fields["priority"].t \notin {"num", "numstr", "nan"}

\* C7: a priority that cannot be parsed as a number, or is absent, neither
\* makes load() fail nor drops the record: the record is loaded with
\* priority 0.0.
Thm_C7 ==
    [][(LoadStepOnFile /\ ClaimTolerableFile(file_lines)) =>
          LET q == ClaimSurvivors(file_lines)
          IN  /\ load_result' = LoadReturned
              /\ Len(cards') = Len(q)
              /\ \A j \in 1..Len(q) :
                    ClaimUnparseablePriority(q[j]) =>
                        /\ cards'[j].id = ClaimField(q[j], "id")
                        /\ cards'[j].priority = 0]_vars

Wit_C7 ==
    /\ load_result = LoadReturned
    /\ Len(file_lines) = 3
    /\ Len(cards) = 3
    /\ \A i \in 1..3 : ClaimWellTyped(file_lines[i]) /\ cards[i].priority = 0
    /\ ClaimField(file_lines[1], "priority").t = "str"
    /\ "priority" \notin DOMAIN file_lines[2].json.fields
    /\ "priority" \in DOMAIN file_lines[3].json.fields
    /\ file_lines[3].json.fields["priority"] = JNull

\* C8: canon_tag trims and collapses whitespace, then returns the synonym
\* table's value when the normalized string is a key and the normalized
\* string otherwise; empty and whitespace-only strings give the empty string.
Thm_C8 ==
    tag_canon # <<>> =>
        LET n == ClaimNormalized(tag_in)
        IN  /\ tag_canon[1] = (IF n \in DOMAIN TAG_NORMALIZE
                               THEN TAG_NORMALIZE[n] ELSE n)
            /\ (\A i \in 1..Len(tag_in) : tag_in[i] \in Whitespace)
                  => tag_canon[1] = <<>>

Wit_C8 ==
    /\ tag_canon # <<>>
    /\ tag_in \notin DOMAIN TAG_NORMALIZE
    /\ ClaimNormalized(tag_in) \in DOMAIN TAG_NORMALIZE
    /\ tag_canon[1] = TAG_NORMALIZE[ClaimNormalized(tag_in)]

\* C9 as stated: for every tag, explode_tag_tokens returns the whole-tag
\* token followed by the tokens of the parts of length >= 2, first
\* occurrence only.
Orig_C9 ==
    tag_tokens # <<>> => ClaimExploded(tag_tokens[1], canon_tag(tag_in))

\* C9 amended: for every tag whose canonical form is not empty,
\* explode_tag_tokens returns the whole-tag token followed by the tokens of
\* the parts of length >= 2, first occurrence only, and no part of length 1;
\* for a tag whose canonical form is empty it returns the empty sequence.
Thm_C9 ==
    tag_tokens # <<>> =>
        LET c == canon_tag(tag_in)
        IN  IF c = <<>> THEN tag_tokens[1] = <<>>
            ELSE ClaimExploded(tag_tokens[1], c)

Wit_C9 ==
    /\ tag_tokens # <<>>
    /\ Len(tag_tokens[1]) >= 2
    /\ LET c == canon_tag(tag_in)
       IN  \E i \in 1..Len(c) :
              /\ c[i] # " "
              /\ i = 1 \/ c[i - 1] = " "
              /\ i = Len(c) \/ c[i + 1] = " "

\* C10 as stated: for every tag with no space after whitespace
\* normalization, the empty tag included, explode_tag_tokens returns exactly
\* one element, canon_tag(tag).
Orig_C10 ==
    (tag_tokens # <<>> /\ ClaimNoSpace(ClaimNormalized(tag_in))) =>
        tag_tokens[1] = <<canon_tag(tag_in)>>

\* C10 amended: for every tag that is not empty and has no space after
\* whitespace normalization, explode_tag_tokens returns exactly one element,
\* canon_tag(tag); for the empty or whitespace-only tag it returns no element.
Thm_C10 ==
    (tag_tokens # <<>> /\ ClaimNoSpace(ClaimNormalized(tag_in))) =>
        tag_tokens[1] = (IF ClaimNormalized(tag_in) = <<>>
                         THEN <<>> ELSE <<canon_tag(tag_in)>>)

Wit_C10 ==
    /\ tag_tokens # <<>>
    /\ ClaimNoSpace(ClaimNormalized(tag_in))
    /\ Len(ClaimNormalized(tag_in)) >= 2
    /\ ClaimNormalized(tag_in) # tag_in
    /\ tag_tokens[1] = <<canon_tag(tag_in)>>

-----------------------------------------------------------------------------
(* Properties of the indexes *)

\* a step that is a load() call that returned
ReturnedLoadStep == LoadStepOnFile /\ load_result' = LoadReturned

\* the cards of cs with topic k and priority p, in the order of cs
RECURSIVE ClaimTies(_, _, _)
ClaimTies(cs, k, p) ==
    IF cs = <<>> THEN <<>>
    ELSE IF Head(cs).topic = k /\ Head(cs).priority = p
         THEN <<Head(cs)>> \o ClaimTies(Tail(cs), k, p)
         ELSE ClaimTies(Tail(cs), k, p)

\* C11: after any load(), every by_topic list is in non-increasing priority
\* order (no card is followed by one of greater priority) and cards of equal
\* priority keep their order in cards.
\* The code does not do this: a priority that parses to NaN is kept, and the
\* sort leaves the cards around a NaN unordered.
Orig_C11 ==
    [][ReturnedLoadStep =>
          \A k \in DOMAIN by_topic' :
             LET l == by_topic'[k]
             IN  /\ \A i, j \in 1..Len(l) :
                       i < j => (l[i].priority # NaN /\ l[j].priority # NaN
                                   => l[i].priority >= l[j].priority)
                 /\ \A i \in 1..Len(l) :
                       ClaimTies(l, k, l[i].priority)
                          = ClaimTies(cards', k, l[i].priority)]_vars

\* the tokens of the stored tags of card c
ClaimCardTokens(c) ==
    UNION {SeqToSet(explode_tag_tokens(c.tags[j])) : j \in 1..Len(c.tags)}

\* document frequency: the cards of cs that have token t
ClaimDf(cs, t) == Cardinality({i \in 1..Len(cs) : t \in ClaimCardTokens(cs[i])})

\* w is the idf index of cs: its keys are the tokens of the tags of cs and
\* each weight is the one of N = Len(cs) and df = number of cards of cs having
\* the token (a card counts once), 1 <= df <= N
ClaimIdfOf(w, cs) ==
    /\ DOMAIN w = UNION {ClaimCardTokens(cs[i]) : i \in 1..Len(cs)}
    /\ \A t \in DOMAIN w :
          /\ w[t].num = Len(cs) + 1
          /\ w[t].den = ClaimDf(cs, t) + 1
          /\ 1 <= ClaimDf(cs, t)
          /\ ClaimDf(cs, t) <= Len(cs)

\* C12: after any load(), the keys of idf are the tokens of the tags of the
\* loaded cards and each weight is the one of N = number of cards and
\* df = number of cards having the token.
\* The code does not do this: a load() that raises on an unhashable topic
\* has replaced cards and left idf as it was.
Orig_C12 == ClaimIdfOf(idf, cards)

\* what holds of C12: a load() that returns leaves idf the index of cards
Returned_C12 == [][ReturnedLoadStep => ClaimIdfOf(idf', cards')]_vars

\* ln(a.num / a.den) + 1.0 < ln(b.num / b.den) + 1.0, ln being increasing
ClaimWeightLess(a, b) == a.num * b.den < b.num * a.den

\* ln(w.num / w.den) + 1.0 > 0 because the quotient is at least 1
ClaimWeightPositive(w) == w.den > 0 /\ w.num >= w.den

\* C13 as stated: every idf value is positive and, for every loaded corpus,
\* a token of every card weighs less than a token of exactly one card.
Orig_C13 ==
    [][ReturnedLoadStep =>
          /\ \A t \in DOMAIN idf' : ClaimWeightPositive(idf'[t])
          /\ \A t, u \in DOMAIN idf' :
                (ClaimDf(cards', t) = Len(cards') /\ ClaimDf(cards', u) = 1)
                   => ClaimWeightLess(idf'[t], idf'[u])]_vars

\* C13 amended: in every state every idf value is positive and of two
\* tokens the one with the greater document count weighs less; a load() that
\* returns makes that count the document frequency in cards, so in a corpus
\* of at least two cards a token of every card weighs less than a token of
\* exactly one card (in a corpus of one card the two are the same tokens).
Thm_C13 ==
    [][/\ \A t \in DOMAIN idf' : ClaimWeightPositive(idf'[t])
       /\ \A t, u \in DOMAIN idf' :
             /\ idf'[t].num = idf'[u].num
             /\ idf'[t].den > idf'[u].den => ClaimWeightLess(idf'[t], idf'[u])
       /\ ReturnedLoadStep =>
             /\ \A t, u \in DOMAIN idf' :
                   ClaimDf(cards', t) > ClaimDf(cards', u)
                      => ClaimWeightLess(idf'[t], idf'[u])
             /\ \A t, u \in DOMAIN idf' :
                   (/\ Len(cards') >= 2
                    /\ ClaimDf(cards', t) = Len(cards')
                    /\ ClaimDf(cards', u) = 1)
                      => ClaimWeightLess(idf'[t], idf'[u])]_vars

Wit_C13 ==
    /\ load_result = LoadReturned
    /\ Len(file_lines) = 3
    /\ Len(cards) = 3
    /\ \E t, u \in DOMAIN idf :
          /\ ClaimDf(cards, t) = 3
          /\ ClaimDf(cards, u) = 1
          /\ ClaimWeightLess(idf[t], idf[u])

\* the ids, topics and tokens the qualifying records of file f give
ClaimFileIds(f) ==
    {ClaimField(ClaimSurvivors(f)[j], "id") : j \in 1..Len(ClaimSurvivors(f))}
ClaimFileTopics(f) ==
    {ClaimField(ClaimSurvivors(f)[j], "topic") : j \in 1..Len(ClaimSurvivors(f))}
ClaimFileTokens(f) ==
    UNION {UNION {SeqToSet(explode_tag_tokens(
                      ClaimField(ClaimSurvivors(f)[j], "tags").items[i])) :
                  i \in 1..Len(ClaimField(ClaimSurvivors(f)[j], "tags").items)} :
           j \in 1..Len(ClaimSurvivors(f))}

\* C14: a new store is empty; after a load() that returns, cards, by_topic
\* and idf are those of the file content alone, whatever the store held:
\* loading an unchanged file again gives equal structures, and nothing of an
\* earlier content remains unless the new content produces it.
Thm_C14 ==
    [][/\ load_result = LoadNotCalled
             => (cards = <<>> /\ DOMAIN by_topic = {} /\ DOMAIN idf = {})
       /\ ReturnedLoadStep =>
             /\ ClaimCardsOf(cards', file_lines)
             /\ cards' = ReadLines(file_lines, <<>>).cards
             /\ by_topic' = build_topic_index(cards').value
             /\ idf' = build_idf(cards')
             /\ \A i \in 1..Len(cards') : cards'[i].id \in ClaimFileIds(file_lines)
             /\ DOMAIN by_topic' \subseteq ClaimFileTopics(file_lines)
             /\ DOMAIN idf' \subseteq ClaimFileTokens(file_lines)]_vars

\* a returned load() replaced cards that the new content does not produce
Wit_C14 ==
    /\ load_result = LoadReturned
    /\ file_exists
    /\ cards_before # <<>>
    /\ \E i \in 1..Len(cards_before[1]) :
          /\ cards_before[1][i].id \notin ClaimFileIds(file_lines)
          /\ \A j \in 1..Len(cards) : cards[j].id # cards_before[1][i].id
          /\ cards_before[1][i].topic \notin DOMAIN by_topic
    /\ cards # <<>>
    /\ ClaimCardsOf(cards, file_lines)

\* a step that is a load() call that assigned cards (line 96)
CardsAssignedStep ==
    LoadStepOnFile /\ (load_result' = LoadReturned \/ cards' # cards)

\* C15: every loaded card has the id and topic of its record unchanged and
\* the record's tags canonicalized one by one, same length and order.
Thm_C15 ==
    [][CardsAssignedStep =>
          LET q == ClaimSurvivors(file_lines)
          IN  /\ Len(cards') = Len(q)
              /\ \A j \in 1..Len(q) :
                    LET raw == ClaimField(q[j], "tags").items
                    IN  /\ cards'[j].id = ClaimField(q[j], "id")
                        /\ cards'[j].topic = ClaimField(q[j], "topic")
                        /\ Len(cards'[j].tags) = Len(raw)
                        /\ \A i \in 1..Len(raw) :
                              cards'[j].tags[i] = canon_tag(raw[i])]_vars

Wit_C15 ==
    /\ load_result = LoadReturned
    /\ Len(file_lines) = 3
    /\ Len(cards) = 3
    /\ \E j \in 1..3 :
          /\ ClaimWellTyped(file_lines[j])
          /\ Len(cards[j].tags) = 2
          /\ cards[j].tags[1] = cards[j].tags[2]
          /\ cards[j].tags[1] # ClaimField(file_lines[j], "tags").items[1]

\* how often x occurs in q
ClaimCount(q, x) == Cardinality({i \in 1..Len(q) : q[i] = x})

RECURSIVE ClaimSumLen(_, _)
ClaimSumLen(m, keys) ==
    IF keys = {} THEN 0
    ELSE LET k == CHOOSE x \in keys : TRUE
         IN  Len(m[k]) + ClaimSumLen(m, keys \ {k})

\* m partitions cs by topic: its keys are the topics of cs, no list is
\* empty, every card is once in the list of its topic and in no other, and
\* the lengths add up to Len(cs)
ClaimPartitions(m, cs) ==
    /\ DOMAIN m = {cs[i].topic : i \in 1..Len(cs)}
    /\ \A k \in DOMAIN m :
          /\ m[k] # <<>>
          /\ \A i \in 1..Len(m[k]) : m[k][i].topic = k
    /\ \A i \in 1..Len(cs) :
          /\ cs[i].topic \in DOMAIN m
          /\ ClaimCount(m[cs[i].topic], cs[i]) = ClaimCount(cs, cs[i])
    /\ ClaimSumLen(m, DOMAIN m) = Len(cs)

\* C16: after any load(), by_topic partitions cards.
\* The code does not do this: a load() that raises on an unhashable topic
\* has replaced cards and left by_topic as it was.
Orig_C16 == ClaimPartitions(by_topic, cards)

\* what holds of C16: a load() that returns leaves by_topic a partition of
\* cards, and records dropped at load give no topic key and no idf token
Returned_C16 ==
    [][ReturnedLoadStep =>
          /\ ClaimPartitions(by_topic', cards')
          /\ DOMAIN by_topic' \subseteq ClaimFileTopics(file_lines)
          /\ DOMAIN idf' \subseteq ClaimFileTokens(file_lines)]_vars

\* the file of C16: a valid record, a record without tags, a malformed line
Reached_C16 ==
    /\ load_result = LoadReturned
    /\ Len(file_lines) = 3
    /\ ClaimWellTyped(file_lines[1])
    /\ ClaimIsObject(file_lines[2]) /\ ClaimEmpty(ClaimField(file_lines[2], "tags"))
    /\ file_lines[3].text = "invalid"
    /\ Len(cards) = 1
    /\ Cardinality(DOMAIN by_topic) = 1
    /\ \A k \in DOMAIN by_topic : Len(by_topic[k]) = 1
    /\ DOMAIN idf = ClaimCardTokens(cards[1])
    /\ DOMAIN idf # {}

ClaimIds(cs) == [i \in 1..Len(cs) |-> cs[i].id]

\* C17 as stated: after any load(), no two cards have the same id.
Orig_C17 ==
    \A i, j \in 1..Len(cards) : cards[i].id = cards[j].id => i = j

\* C17 amended: load() keeps every qualifying record, so whenever load()
\* assigns cards their ids are those of the qualifying records, one by one:
\* two cards have the same id exactly when two qualifying records of the file
\* have the same id.
Thm_C17 ==
    [][CardsAssignedStep =>
          LET q == ClaimSurvivors(file_lines)
          IN  /\ ClaimIds(cards') = [j \in 1..Len(q) |-> ClaimField(q[j], "id")]
              /\ ClaimNoDup(ClaimIds(cards'))
                    <=> ClaimNoDup([j \in 1..Len(q) |-> ClaimField(q[j], "id")])]_vars

Wit_C17 ==
    /\ load_result = LoadReturned
    /\ Len(file_lines) = 3
    /\ Len(cards) = 3
    /\ cards[1].id = cards[3].id
    /\ cards[1] # cards[3]
    /\ cards[1].id # cards[2].id

-----------------------------------------------------------------------------
(* Properties of the application *)

\* the three fields of the store that load() builds
ClaimIndexes == <<cards, by_topic, idf>>

\* C18: selecting rule cards (_select_rulecards with _card_to_dict), for every
\* store state and feature-tag list, and the readiness check leave cards
\* (content and order), by_topic and idf unchanged; a step changes one of
\* the three only when it invokes load().
Thm_C18 ==
    [][/\ (select_out' # select_out \/ ready_out' # ready_out)
             => UNCHANGED ClaimIndexes
       /\ ClaimIndexes' # ClaimIndexes => startup_loads' # startup_loads]_vars

\* a ready answer and a selection that returned the cards in another order
\* than the store holds them
Wit_C18 ==
    /\ rulestore = "store"
    /\ ready_out # <<>>
    /\ ready_out[1].status = "ready"
    /\ ready_out[1].rulecards_loaded = 2
    /\ select_out # <<>>
    /\ select_out[1].feature_tags # <<>>
    /\ Len(select_out[1].rulecards) = 2
    /\ Len(cards) = 2
    /\ select_out[1].rulecards[1].id = cards[2].id
    /\ select_out[1].rulecards[2].id = cards[1].id
    /\ cards[1].priority < cards[2].priority

\* C19: when load() runs again while requests read the store, whatever a
\* reader observes is one snapshot: by_topic and idf are the indexes of the
\* cards it observes.
\* The code does not do this: load() assigns cards, by_topic and idf in three
\* statements, and a request served between them reads new cards with the
\* old by_topic and idf.
Orig_C19 ==
    [][status_out' # status_out
          => /\ ClaimPartitions(by_topic, cards)
             /\ ClaimIdfOf(idf, cards)]_vars

\* the first candidate path that exists is p
ClaimFirstExisting(p) ==
    \E i \in 1..Len(possible_paths) :
       /\ candidate_exists[i]
       /\ \A j \in 1..(i - 1) : ~candidate_exists[j]
       /\ p = possible_paths[i]

\* what holds once lifespan has run
ClaimStarted ==
    /\ Len(startup_loads) <= 1
    /\ startup_loads # <<>> => ClaimFirstExisting(startup_loads[1])
    /\ startup_loads = <<>> => \A i \in 1..Len(possible_paths) : ~candidate_exists[i]
    /\ rulestore = "store"
          => (startup_loads = <<path>> /\ load_result = LoadReturned)
    /\ (startup_loads = <<>> \/ load_result # LoadReturned)
          => rulestore = "None"
    /\ rulestore = "None" =>
          /\ ready_out # <<>> =>
                (ready_out[1].status_code = 503 /\ ready_out[1].status = "not_ready")
          /\ select_out # <<>> => select_out[1].rulecards = <<>>

\* C20: lifespan invokes load() at most once, on the first candidate path
\* that exists; app.state.rulestore is a store only if that load() returned;
\* with no candidate file, or a load() that raises, lifespan still completes,
\* with rulestore None: then the readiness check answers 503 not_ready and
\* _select_rulecards returns the empty list.
Thm_C20 ==
    [][/\ rulestore = "unset" => rulestore' # "unset"
       /\ ClaimStarted']_vars

\* the first candidate is missing, load() raised on a later one, and both
\* consumers answered without the store
Wit_C20 ==
    /\ ~candidate_exists[1]
    /\ candidate_exists[3]
    /\ startup_loads # <<>>
    /\ load_result.kind \in {"AttributeError", "TypeError"}
    /\ rulestore = "None"
    /\ ready_out # <<>>
    /\ ready_out[1].status_code = 503
    /\ ready_out[1].checks.openai
    /\ ready_out[1].checks.supabase
    /\ select_out # <<>>
    /\ select_out[1].rulecards = <<>>

-----------------------------------------------------------------------------
(* Properties of the tag functions, continued *)

\* C30: canon_tag is idempotent (no value of the synonym table is a key), so
\* the stored form of a tag and every token of explode_tag_tokens are fixed
\* points of canon_tag, and explode_tag_tokens gives the same tokens for the
\* stored form of a tag as for the raw tag.
Thm_C30 ==
    /\ \A k \in DOMAIN TAG_NORMALIZE : TAG_NORMALIZE[k] \notin DOMAIN TAG_NORMALIZE
    /\ tag_canon # <<>> =>
          /\ canon_tag(tag_canon[1]) = tag_canon[1]
          /\ explode_tag_tokens(tag_canon[1]) = explode_tag_tokens(tag_in)
    /\ tag_tokens # <<>> =>
          \A i \in 1..Len(tag_tokens[1]) :
             canon_tag(tag_tokens[1][i]) = tag_tokens[1][i]

\* a raw tag with a run of whitespace whose stored form differs from it and
\* one of whose parts is replaced by the synonym table
Wit_C30 ==
    /\ tag_canon # <<>>
    /\ tag_tokens # <<>>
    /\ \E i \in 1..Len(tag_in) : tag_in[i] = "TAB"
    /\ tag_canon[1] # tag_in
    /\ Len(tag_tokens[1]) >= 2
    /\ \E i \in 2..Len(tag_tokens[1]) :
          /\ tag_tokens[1][i] \in {TAG_NORMALIZE[k] : k \in DOMAIN TAG_NORMALIZE}
          /\ \E k \in DOMAIN TAG_NORMALIZE :
                /\ TAG_NORMALIZE[k] = tag_tokens[1][i]
                /\ k \in SeqToSet(str_split_sep(tag_canon[1], " "))

\* what C30 gives for a load() that returns: idf is the index the raw tags
\* of the qualifying records would give
Returned_C30 ==
    [][ReturnedLoadStep =>
          LET q == ClaimSurvivors(file_lines)
              raw(j) == ClaimField(q[j], "tags").items
              rawcards == [j \in 1..Len(q) |-> [tags |-> raw(j)]]
          IN  ClaimIdfOf(idf', rawcards)]_vars

-----------------------------------------------------------------------------
(* Vocabulary of C21..C23 and C27..C29: the calls of the latest execution *)

\* the sections of a report, in the order of SECTION_SPECS
ClaimSectionOrder ==
    <<"exec", "money", "business", "team", "health", "calendar", "sprint">>

ClaimCalled(call) == \E i \in 1..Len(job_log) : job_log[i].call = call

\* the latest execution is over: its run_job call has returned
ClaimExecutionOver == job_log # <<>> /\ \A t \in Tasks : task[t].pc = "idle"

\* the sections for which _generate_section_with_guardrail was called, in
\* the order of the calls
RECURSIVE ClaimAttemptedFrom(_)
ClaimAttemptedFrom(i) ==
    IF i > Len(job_log) THEN <<>>
    ELSE (IF job_log[i].call = "generate_section"
          THEN <<job_log[i].arg>> ELSE <<>>) \o ClaimAttemptedFrom(i + 1)

ClaimAttempted == ClaimAttemptedFrom(1)

\* section idx was generated with ok = True and saved without an exception
ClaimSectionPassed(idx) ==
    /\ \E i \in 1..Len(job_log) :
          /\ job_log[i].call = "generate_section" /\ job_log[i].arg = idx
          /\ job_log[i].outcome = "ok" /\ job_log[i].flag
    /\ \E i \in 1..Len(job_log) :
          /\ job_log[i].call = "save_section" /\ job_log[i].arg = idx
          /\ job_log[i].outcome = "ok"

\* event i shows a section with ok = False or one that raised
ClaimFailureAt(i) ==
    \/ /\ job_log[i].call = "generate_section"
       /\ (job_log[i].outcome = "raised" \/ ~job_log[i].flag)
    \/ /\ job_log[i].call = "save_section" /\ job_log[i].outcome = "raised"

ClaimSomeSectionFailed == \E i \in 1..Len(job_log) : ClaimFailureAt(i)

ClaimAllSections == [i \in 1..Len(ClaimSectionOrder) |-> i - 1]

\* a progress update that raised after a section had failed
ClaimProgressUpdateRaisedAfterFailure ==
    \E i \in 1..Len(job_log) : \E j \in (i + 1)..Len(job_log) :
       /\ ClaimFailureAt(i)
       /\ job_log[j].call = "update_progress" /\ job_log[j].outcome = "raised"

\* fail_job was called after the last section that was attempted
ClaimFailJobCalledLast ==
    \E i \in 1..Len(job_log) :
       /\ job_log[i].call = "fail_job"
       /\ \A j \in i..Len(job_log) : job_log[j].call = "fail_job"

-----------------------------------------------------------------------------
(* C21 *)

ClaimCompleteOnlyIfAllPassed ==
    ClaimCalled("complete_job")
       => \A idx \in 0..(Len(ClaimSectionOrder) - 1) : ClaimSectionPassed(idx)

\* C21 as stated: complete_job is called only if every section was generated
\* with ok = True and saved without an exception; if at least one section
\* has ok = False or raised, every remaining section is still attempted in
\* SECTION_SPECS order, then fail_job is called and complete_job never is
Orig_C21 ==
    /\ ClaimCompleteOnlyIfAllPassed
    /\ (ClaimExecutionOver /\ ClaimSomeSectionFailed)
          => /\ ClaimAttempted = ClaimAllSections
             /\ ClaimFailJobCalledLast
             /\ ~ClaimCalled("complete_job")

\* C21, amended: complete_job is called only if every section was generated
\* with ok = True and saved without an exception; if at least one section
\* has ok = False or raised, the sections are attempted in SECTION_SPECS
\* order and every remaining one is attempted unless the update_progress
\* call that opens a later round raises; in both cases fail_job is then
\* called and complete_job is never called in that execution
Thm_C21 ==
    /\ ClaimCompleteOnlyIfAllPassed
    /\ \A i \in 1..Len(ClaimAttempted) : ClaimAttempted[i] = i - 1
    /\ ClaimSomeSectionFailed => ~ClaimCalled("complete_job")
    /\ (ClaimExecutionOver /\ ClaimSomeSectionFailed)
          => /\ \/ ClaimAttempted = ClaimAllSections
                \/ ClaimProgressUpdateRaisedAfterFailure
             /\ ClaimFailJobCalledLast

\* an execution that is over, in which the save of one section raised, all
\* seven sections were attempted and fail_job was called
Wit_C21 ==
    /\ ClaimExecutionOver
    /\ \E i \in 1..Len(job_log) :
          job_log[i].call = "save_section" /\ job_log[i].outcome = "raised"
             /\ job_log[i].arg < 3
    /\ ClaimAttempted = ClaimAllSections
    /\ ClaimFailJobCalledLast

-----------------------------------------------------------------------------
(* C22 *)

\* the generation of section idx failed inside the report builder: a call
\* of regenerate_single_section for it raised or returned success = False
ClaimBuilderFailed(idx) ==
    \E i \in 1..Len(job_log) :
       /\ job_log[i].call = "regenerate_single_section"
       /\ job_log[i].arg = idx
       /\ job_log[i].outcome \in {"raised", "failure"}

\* section idx was recorded with guardrail_passed = True
ClaimRecordedPassed(idx) ==
    \E i \in 1..Len(job_log) :
       /\ job_log[i].call = "save_section"
       /\ job_log[i].arg = idx
       /\ job_log[i].flag

\* C22: a section whose generation failed inside the report builder
\* (regenerate_single_section raised, or returned its failure result) is
\* never recorded as guardrail-passed by the worker, and a job containing
\* such a section is never marked completed
Thm_C22 ==
    \A idx \in 0..(Len(ClaimSectionOrder) - 1) :
       ClaimBuilderFailed(idx)
          => /\ ~ClaimRecordedPassed(idx)
             /\ ~ClaimCalled("complete_job")
             /\ (db_job # <<>> => db_job[1].status # "completed")

\* an execution that is over: the builder call of section team raised, the
\* section was saved with guardrail_passed = False and the job is failed
Wit_C22 ==
    /\ ClaimExecutionOver
    /\ ClaimBuilderFailed(3)
    /\ \E i \in 1..Len(job_log) :
          /\ job_log[i].call = "save_section" /\ job_log[i].arg = 3
          /\ job_log[i].outcome = "ok" /\ ~job_log[i].flag
    /\ db_job # <<>> /\ db_job[1].status = "failed"

-----------------------------------------------------------------------------
(* C23 *)

\* the outcomes of the builder calls made for the generate_section event at
\* position i: the regenerate_single_section events right before it
RECURSIVE ClaimBuilderCallsBefore(_)
ClaimBuilderCallsBefore(i) ==
    IF i > 1 /\ job_log[i - 1].call = "regenerate_single_section"
    THEN Append(ClaimBuilderCallsBefore(i - 1), job_log[i - 1].outcome)
    ELSE <<>>

\* ok of a result the builder returned: a result without the key "ok" counts
\* as ok, and neither result of the builder has that key
ClaimResultOk(outcome) == outcome \in {"success", "failure"}

-----------------------------------------------------------------------------
(* C24 *)

\* the number of create calls among the first i events of the log
RECURSIVE ClaimCreatesUpTo(_)
ClaimCreatesUpTo(i) ==
    IF i = 0 THEN 0
    ELSE ClaimCreatesUpTo(i - 1) + (IF api_log[i].event = "create" THEN 1 ELSE 0)

ClaimRetryable ==
    {"RateLimitError", "APIError", "APIConnectionError", "APITimeoutError"}

ClaimLast(i) == i = Len(api_log)

ClaimEnded(kind, type, call) ==
    /\ retry_pc = "done"
    /\ call_result = <<[kind |-> kind, value |-> [type |-> type, call |-> call]]>>

\* C24: _call_openai_with_retry with max_retries = n >= 1 performs at most n
\* API calls and returns the content of the first successful one; a
\* retryable error is followed by a further attempt while attempts remain,
\* with a wait between consecutive attempts only (none after the last); any
\* other exception propagates immediately with no further call; after n
\* retryable failures the last such error is raised
Thm_C24 ==
    retry_pc # "idle" =>
    /\ ClaimCreatesUpTo(Len(api_log)) <= max_retries
    /\ \A i \in 1..Len(api_log) :
          LET ev == api_log[i]
              k == ClaimCreatesUpTo(i)
          IN  /\ (ev.event = "create" /\ ev.outcome = "ok")
                    => ClaimLast(i) /\ ClaimEnded("returned", "ok", k)
              /\ (ev.event = "create" /\ ev.outcome \in ClaimRetryable
                     /\ k < max_retries)
                    => /\ ClaimLast(i) => retry_pc = "sleep"
                       /\ ~ClaimLast(i) => api_log[i + 1].event = "sleep"
              /\ (ev.event = "create" /\ ev.outcome \in ClaimRetryable
                     /\ k = max_retries)
                    => ClaimLast(i) /\ ClaimEnded("raised", ev.outcome, k)
              /\ (ev.event = "create" /\ ev.outcome \notin ClaimRetryable
                     /\ ev.outcome # "ok")
                    => ClaimLast(i) /\ ClaimEnded("raised", ev.outcome, k)
              /\ ev.event = "sleep"
                    => /\ i > 1
                       /\ api_log[i - 1].event = "create"
                       /\ ClaimLast(i) => retry_pc = "create"
                       /\ ~ClaimLast(i) => api_log[i + 1].event = "create"
    /\ retry_pc = "done" => call_result # <<>> /\ api_log # <<>>
                            /\ api_log[Len(api_log)].event = "create"

\* three attempts allowed, three retryable failures with a wait after the
\* first and the second only, and the third error raised
Wit_C24 ==
    /\ max_retries = 3
    /\ Len(api_log) = 5
    /\ api_log[1].outcome = "RateLimitError"
    /\ api_log[3].outcome = "APITimeoutError"
    /\ ClaimEnded("raised", "APIConnectionError", 3)

\* two retryable failures, then the content of the third call is returned
Reached_C24 ==
    /\ max_retries = 3
    /\ Len(api_log) = 5
    /\ ClaimEnded("returned", "ok", 3)

-----------------------------------------------------------------------------
(* C27 *)

\* the run_job calls that are executing _execute_job (or the except clause
\* that follows it)
ClaimExecuting == {t \in Tasks : task[t].pc # "idle"}

ClaimOneExecution ==
    /\ Cardinality(ClaimExecuting) <= 1
    /\ ClaimExecuting # {} <=> JobId \in running_jobs

\* C27: for every interleaving of run_job calls at most one execution of
\* _execute_job for the job id is in progress at any time: a run_job call
\* made while the id is in _running_jobs returns without executing and
\* without removing the id, and whenever a run_job call that did execute
\* returns, the id is no longer in _running_jobs, so that the job can be run
\* again later
Thm_C27 ==
    [][/\ ClaimOneExecution'
       /\ (invocations' # invocations /\ JobId \in running_jobs)
             => UNCHANGED <<running_jobs, task, job_log, db_job, db_sections>>
       /\ (invocations' # invocations /\ JobId \notin running_jobs)
             => Cardinality(ClaimExecuting') = 1
       /\ (ClaimExecuting # {} /\ ClaimExecuting' = {})
             => JobId \notin running_jobs']_vars

\* the job is executing for the second time: the first execution ended with
\* fail_job, and the second has found the job
Wit_C27 ==
    /\ invocations = 2
    /\ \E t \in Tasks : task[t].pc = "start"
    /\ JobId \in running_jobs
    /\ db_job # <<>> /\ db_job[1].status = "failed"

\* a duplicate call has returned while the first execution goes on: two
\* calls were made, nothing raised and no section has been saved yet
Reached_C27 ==
    /\ invocations = 2
    /\ raises = 0
    /\ \E t \in Tasks : task[t].pc = "save"
    /\ db_job # <<>> /\ db_job[1].status = "running"
    /\ db_sections = <<>>

-----------------------------------------------------------------------------
(* C28 *)

ClaimPersistenceCalls ==
    {"get_job", "update_progress", "save_section", "fail_job", "complete_job"}

ClaimNoPersistenceCallRaised ==
    \A i \in 1..Len(job_log) :
       job_log[i].call \in ClaimPersistenceCalls => job_log[i].outcome = "ok"

\* get_job returned the job
ClaimJobFound ==
    /\ job_log # <<>>
    /\ job_log[1].call = "get_job" /\ job_log[1].outcome = "ok" /\ job_log[1].flag

\* the positions of the complete_job and fail_job calls
ClaimTerminalCalls ==
    {i \in 1..Len(job_log) : job_log[i].call \in {"complete_job", "fail_job"}}

\* _execute_job raised before its terminal call: the job was not found, or
\* get_job or update_progress raised
ClaimExecuteJobRaised ==
    \E i \in 1..Len(job_log) :
       \/ job_log[i].call = "get_job"
             /\ (job_log[i].outcome = "raised" \/ ~job_log[i].flag)
       \/ job_log[i].call = "update_progress" /\ job_log[i].outcome = "raised"

ClaimOneTerminalCall ==
    /\ (ClaimJobFound /\ ClaimNoPersistenceCallRaised)
          => /\ Cardinality(ClaimTerminalCalls) <= 1
             /\ \A i \in ClaimTerminalCalls :
                   /\ i = Len(job_log)
                   /\ \E j \in 1..(i - 1) :
                         job_log[j].call = "update_progress"
                            /\ job_log[j].outcome = "ok"
    /\ (ClaimExecutionOver /\ ClaimJobFound /\ ClaimNoPersistenceCallRaised)
          => Cardinality(ClaimTerminalCalls) = 1
    /\ (ClaimExecutionOver /\ ClaimExecuteJobRaised)
          => \E i \in ClaimTerminalCalls :
                job_log[i].call = "fail_job" /\ job_log[i].arg = 1

\* C28: assuming the job exists, the persistence calls do not raise and
\* every builder call comes back, each run_job execution terminates and
\* calls exactly one of complete_job and fail_job, exactly once, after the
\* status was set to running; if _execute_job raises before that (a job
\* that is not found included), fail_job is called by run_job
Thm_C28 ==
    /\ []ClaimOneTerminalCall
    /\ \A t \in Tasks : (task[t].pc # "idle") ~> (task[t].pc = "idle")

\* an execution that is over in which the job was found and no persistence
\* call raised: all sections were attempted and fail_job was called once
Wit_C28 ==
    /\ ClaimExecutionOver
    /\ ClaimJobFound
    /\ ClaimNoPersistenceCallRaised
    /\ Len(ClaimAttempted) = Len(ClaimSectionOrder)
    /\ Cardinality(ClaimTerminalCalls) = 1
    /\ job_log[Len(job_log)] = JobEvent("fail_job", 0, "ok", FALSE)

\* an execution that is over in which the job was not found: run_job called
\* fail_job
Reached_C28 ==
    /\ ClaimExecutionOver
    /\ db_job = <<>>
    /\ Len(job_log) = 2
    /\ job_log[2] = JobEvent("fail_job", 1, "ok", FALSE)

-----------------------------------------------------------------------------
(* C29 *)

\* 5 at start, then int(idx / 7 * 90) + 10 for idx = 0..6
ClaimProgressValues == <<5, 10, 22, 35, 48, 61, 74, 87>>

\* the progress values the latest execution passed to update_progress
RECURSIVE ClaimProgressFrom(_)
ClaimProgressFrom(i) ==
    IF i > Len(job_log) THEN <<>>
    ELSE (IF job_log[i].call = "update_progress"
          THEN <<job_log[i].arg>> ELSE <<>>) \o ClaimProgressFrom(i + 1)

\* the latest execution has written a progress value
ClaimHasWritten ==
    \E i \in 1..Len(job_log) :
       /\ job_log[i].call \in {"update_progress", "fail_job", "complete_job"}
       /\ job_log[i].outcome = "ok"

ClaimProgressInOrder ==
    /\ \A i \in 1..Len(job_log) :
          job_log[i].call = "update_progress"
             => LET k == Cardinality({j \in 1..i :
                                         job_log[j].call = "update_progress"})
                IN  /\ k <= Len(ClaimProgressValues)
                    /\ job_log[i].arg = ClaimProgressValues[k]
                    /\ job_log[i].arg \in 0..87
                    /\ k > 1 => ClaimProgressValues[k - 1] <= job_log[i].arg
    /\ db_job # <<>>
          => /\ db_job[1].progress \in 0..100
             /\ db_job[1].progress = 100
                   <=> db_job[1].status \in {"completed", "failed"}

\* C29: the progress values one job execution writes are non-decreasing and
\* each lies in 0..100: 5 at start, then int(idx/7*90)+10 for idx = 0..6 in
\* order (never above 87), and 100 only with the terminal completed or
\* failed status; the status endpoint never reports less than the stored
\* job progress
Thm_C29 ==
    /\ []ClaimProgressInOrder
    /\ [][/\ (ClaimHasWritten /\ db_job # <<>>)
                => db_job'[1].progress >= db_job[1].progress
          /\ (job_status_out' # job_status_out /\ db_job # <<>>)
                => job_status_out'[1].progress >= db_job[1].progress]_vars

\* an execution that is over after all eight progress updates and fail_job,
\* with the status endpoint last asked while the last section was under way
Wit_C29 ==
    /\ ClaimExecutionOver
    /\ ClaimProgressFrom(1) = ClaimProgressValues
    /\ db_job = <<[status |-> "failed", progress |-> 100]>>
    /\ job_status_out = <<[status |-> "running", progress |-> 87]>>

-----------------------------------------------------------------------------
(* C25 *)

\* place of a returned section: 1..7 for a known id, 8 for any other
ClaimPlace(s) ==
    IF s.section_id.t = "str"
       /\ \E i \in 1..Len(ClaimSectionOrder) : ClaimSectionOrder[i] = s.section_id.s
    THEN CHOOSE i \in 1..Len(ClaimSectionOrder) : ClaimSectionOrder[i] = s.section_id.s
    ELSE Len(ClaimSectionOrder) + 1

\* the sections of q that have place r, in the order of q
RECURSIVE ClaimAtPlace(_, _)
ClaimAtPlace(q, r) ==
    IF q = <<>> THEN <<>>
    ELSE (IF ClaimPlace(Head(q)) = r THEN <<Head(q)>> ELSE <<>>)
         \o ClaimAtPlace(Tail(q), r)

\* the texts of the sections of q whose markdown is non-empty, in order
RECURSIVE ClaimRendered(_)
ClaimRendered(q) ==
    IF q = <<>> THEN <<>>
    ELSE (IF Head(q).markdown = <<>> THEN <<>>
          ELSE << <<"# ", Head(q).title, "\n\n">> \o Head(q).markdown >>)
         \o ClaimRendered(Tail(q))

\* the stored rows as the endpoints present them, in the store's order
ClaimStoredSections ==
    [i \in 1..Len(db_sections) |-> normalized_section(db_sections[i])]

ClaimSectionsInOrder(out) ==
    /\ Len(out.sections) = Len(db_sections)
    /\ \A i \in 1..Len(out.sections) : \A j \in i..Len(out.sections) :
          ClaimPlace(out.sections[i]) <= ClaimPlace(out.sections[j])
    /\ \A r \in 1..(Len(ClaimSectionOrder) + 1) :
          ClaimAtPlace(out.sections, r) = ClaimAtPlace(ClaimStoredSections, r)
    /\ out.full_markdown = text_join("\n\n---\n\n", ClaimRendered(out.sections))

\* C25: the view and result endpoints return the sections in the order exec,
\* money, business, team, health, calendar, sprint whatever the order of the
\* store; sections with an unknown section_id come after all known ones and
\* keep their relative order; full_markdown concatenates, in that order,
\* exactly the sections whose markdown is non-empty
Thm_C25 ==
    /\ view_out # <<>> => ClaimSectionsInOrder(view_out[1])
    /\ (result_out # <<>> /\ result_out[1].completed)
          => ClaimSectionsInOrder(result_out[1])

\* both endpoints answered for a store that returns an unknown id first, a
\* known id last and at least one section without markdown
Wit_C25 ==
    /\ view_out # <<>>
    /\ result_out # <<>> /\ result_out[1].completed
    /\ Len(db_sections) = 3
    /\ ClaimPlace(ClaimStoredSections[1]) = Len(ClaimSectionOrder) + 1
    /\ ClaimPlace(ClaimStoredSections[2]) = Len(ClaimSectionOrder) + 1
    /\ ClaimPlace(ClaimStoredSections[3]) <= Len(ClaimSectionOrder)
    /\ \E i \in 1..3 : ClaimStoredSections[i].markdown = <<>>
    /\ \E i \in 1..3 : ClaimStoredSections[i].markdown # <<>>

-----------------------------------------------------------------------------
(* Properties of the selection of rule cards *)

\* card c has a tag equal, case-insensitively, to one of the feature tags ft
ClaimMatches(c, ft) ==
    \E i \in 1..Len(c.tags), j \in 1..Len(ft) :
       str_lower(c.tags[i]) = str_lower(ft[j])

\* the cards a selection with the feature tags ft chooses among, in store
\* order: the matching ones if any, every card otherwise
ClaimPool(cs, ft) ==
    IF ft = <<>> \/ \A i \in 1..Len(cs) : ~ClaimMatches(cs[i], ft)
    THEN cs
    ELSE SelectSeq(cs, LAMBDA c : ClaimMatches(c, ft))

ClaimLimit(ft) == IF ft = <<>> THEN TopWithoutTags ELSE TopWithTags

\* the cards of q with priority p, in the order of q
ClaimSamePriority(q, p) == SelectSeq(q, LAMBDA c : c.priority = p)

ClaimPrefix(a, b) == Len(a) <= Len(b) /\ a = SubSeq(b, 1, Len(a))

\* out is the k highest-priority cards of pool (all of them when pool has
\* fewer): no card is followed by one of greater priority, cards of equal
\* priority are in the order of pool, and no card left out has a greater
\* priority than one that is in
ClaimHighest(out, pool, k) ==
    /\ Len(out) = Min(Len(pool), k)
    /\ \A i, j \in 1..Len(out) :
          i < j => ~float_lt(out[i].priority, out[j].priority)
    /\ \A i \in 1..Len(out) :
          ClaimPrefix(ClaimSamePriority(out, out[i].priority),
                      ClaimSamePriority(pool, out[i].priority))
    /\ \A i \in 1..Len(pool) :
          LET p == pool[i].priority
              rest == Len(ClaimSamePriority(pool, p))
                         - Len(ClaimSamePriority(out, p))
          IN  rest > 0 => \A j \in 1..Len(out) : ~float_lt(out[j].priority, p)

\* what C26 says of the last selection
ClaimSelection ==
    LET out == select_out[1].rulecards
        ft == select_out[1].feature_tags
    IN  /\ out = <<>> <=> (rulestore = "None" \/ cards = <<>>)
        /\ (rulestore # "None" /\ cards # <<>>) =>
              /\ ClaimHighest(out, ClaimPool(cards, ft), ClaimLimit(ft))
              /\ (ft # <<>> /\ \E i \in 1..Len(cards) : ClaimMatches(cards[i], ft))
                    => /\ \A i \in 1..Len(out) : ClaimMatches(out[i], ft)
                       /\ Len(out) <= TopWithTags

\* C26: _select_rulecards returns the empty list exactly when the store is
\* None or has no cards; otherwise the min(len(cards), 100) highest-priority
\* cards for an empty feature-tag list, only matching cards and at most 50 of
\* them when a card matches a feature tag, the min(len(cards), 50)
\* highest-priority cards when none matches; always in non-increasing
\* priority order with ties in store order.
\* The code does not do this: a priority that parses to NaN is kept in the
\* cards, and sorted() leaves the cards around a NaN unordered.
Orig_C26 == select_out # <<>> => ClaimSelection

ClaimNoNaN == \A i \in 1..Len(cards) : cards[i].priority # NaN

\* what holds of the code: the selection is as C26 says whenever no card of
\* the store has a NaN priority, and the empty result is as C26 says always
Returned_C26 ==
    select_out # <<>> =>
       /\ ClaimNoNaN => ClaimSelection
       /\ select_out[1].rulecards = <<>> <=> (rulestore = "None" \/ cards = <<>>)

\* a selection among the matching cards only, which returned them in another
\* order than the store holds them and left a card of the store out
Reached_C26 ==
    /\ select_out # <<>>
    /\ ClaimNoNaN
    /\ Len(cards) = 3
    /\ select_out[1].feature_tags # <<>>
    /\ Len(select_out[1].rulecards) = 2
    /\ select_out[1].rulecards[1].priority > select_out[1].rulecards[2].priority
    /\ select_out[1].rulecards[1] = card_to_dict(cards[3])
    /\ ~ClaimMatches(cards[2], select_out[1].feature_tags)

\* a selection that fell back to every card of the store, in another order
\* than the store holds them
FellBack_C26 ==
    /\ select_out # <<>>
    /\ ClaimNoNaN
    /\ Len(cards) = 3
    /\ select_out[1].feature_tags # <<>>
    /\ \A i \in 1..Len(cards) : ~ClaimMatches(cards[i], select_out[1].feature_tags)
    /\ Len(select_out[1].rulecards) = 3
    /\ select_out[1].rulecards[1] = card_to_dict(cards[3])

====
